---- MODULE Spec2Model ----
(***************************************************************************)
(* A model of the document core of the repository: Fragment                *)
(* (src/model/fragment.ts), Slice and the structural replace algorithm     *)
(* (src/model/replace.ts), the mark steps (src/unnamed/part_004) and the   *)
(* Transform accumulator (src/transform/transform.ts).                     *)
(*                                                                         *)
(* Values.  A node is a record [type, text, marks, content]; content is a  *)
(* fragment, a record [content, size] holding the child array and the      *)
(* cached size.  Text is a sequence of one-character strings.  A mark set  *)
(* is a set of mark names (the code keeps mark arrays ordered by rank, so  *)
(* an array is determined by its set).  A thrown error is a node-shaped    *)
(* record whose type is the error's name prefixed by "!" and whose text is *)
(* the message the caught object carries.                                  *)
(***************************************************************************)
EXTENDS Integers, Sequences, FiniteSets, TLC

VARIABLES
    doc,      \* Transform.doc
    steps,    \* Transform.steps
    docs,     \* Transform.docs
    maps,     \* Transform.mapping.maps
    ret,      \* what the last Transform call returned or threw
    hist,     \* history variable: one entry per step/maybeStep call
    inp,      \* the inputs of the pure operation under check
    out       \* its outputs

vars == <<doc, steps, docs, maps, ret, hist, inp, out>>

(***************************************************************************)
(* Generic helpers.                                                        *)
(***************************************************************************)
Min(a, b) == IF a < b THEN a ELSE b
Max(a, b) == IF a > b THEN a ELSE b

\* Array.prototype.slice(from, to) on a sequence (0-based, half-open).
ArraySlice(s, from, to) == SubSeq(s, from + 1, Min(to, Len(s)))

\* All sequences over S of length 0..n.
RECURSIVE SeqsUpTo(_, _)
SeqsUpTo(S, n) ==
    IF n = 0 THEN {<<>>}
    ELSE LET shorter == SeqsUpTo(S, n - 1)
         IN  shorter \cup {Append(s, x) : s \in {t \in shorter : Len(t) = n - 1}, x \in S}

(***************************************************************************)
(* Schema: the node and mark types the documents below are built from.     *)
(* The schema is a collaborator of the core (spec section 6); this one has *)
(* two container block types, two textblock types (one of which allows no  *)
(* marks) and two mark types, one of which excludes every other mark.      *)
(***************************************************************************)
BlockTypes == {"paragraph", "code_block", "blockquote"}
TextblockTypes == {"paragraph", "code_block"}

\* MarkType.excludes(other): "code" excludes "_" (everything), "strong"
\* only itself.
excludes(m, other) == m = other \/ m = "code"

\* NodeType.allowsMarkType
allowsMarkType(type, m) == type = "paragraph"

\* NodeType.allowsMarks
allowsMarks(type, marks) == \A m \in marks : allowsMarkType(type, m)

\* NodeType.isLeaf / Node.isText / Node.isInline
isText(n) == n.type = "text"
isLeaf(n) == n.type = "text"
isInline(n) == n.type = "text"

\* NodeType.compatibleContent: the same type, or content expressions that
\* can start with a common node type.
compatibleContent(a, b) ==
    \/ a = b
    \/ {a, b} \subseteq TextblockTypes
    \/ {a, b} \subseteq {"doc", "blockquote"}

(***************************************************************************)
(* Nodes.                                                                  *)
(***************************************************************************)
\* Fragment.empty.  The field id names the JavaScript array that holds the
\* children: 0 is an array allocated by the operation at hand, any other
\* number is an array that existed before the operation was called.
EmptyFragment == [content |-> <<>>, size |-> 0, id |-> 0]

NullNode == [type |-> "null", text |-> <<>>, marks |-> {}, content |-> EmptyFragment]

isNull(n) == n.type = "null"

\* Node.nodeSize / TextNode.nodeSize
nodeSize(n) == IF isText(n) THEN Len(n.text) ELSE IF isLeaf(n) THEN 1 ELSE 2 + n.content.size

\* Node.copy(content)
copy(n, content) == [n EXCEPT !.content = content]

\* TextNode.withText(text)
withText(n, text) == [n EXCEPT !.text = text]

\* Node.mark(marks)
mark(n, marks) == [n EXCEPT !.marks = marks]

\* Node.sameMarkup(other): same type (and attributes) and the same mark set.
sameMarkup(n, other) == n.type = other.type /\ n.marks = other.marks

\* Node.eq / Fragment.eq: deep structural equality.  The cached size is not
\* compared by the code (Fragment.eq walks the children), so it is not
\* compared here either.
RECURSIVE nodeEq(_, _)
RECURSIVE fragmentEq(_, _)
nodeEq(a, b) ==
    /\ sameMarkup(a, b)
    /\ a.text = b.text
    /\ fragmentEq(a.content, b.content)

fragmentEq(a, b) ==
    /\ Len(a.content) = Len(b.content)
    /\ \A i \in 1..Len(a.content) : nodeEq(a.content[i], b.content[i])

(***************************************************************************)
(* Thrown errors.                                                          *)
(***************************************************************************)
\* An error object as the catcher sees it: its name and its message.
Thrown(name, message) ==
    [type |-> "!" \o name, text |-> message, marks |-> {}, content |-> EmptyFragment]

isThrown(n) == n.type \in {"!ReplaceError", "!RangeError", "!TypeError", "!TransformError"}

\* A fragment-valued operation that threw.
ThrownFragment(e) == [content |-> <<e>>, size |-> -1, id |-> 0]

fragmentThrew(f) == f.size = -1

\* new ReplaceError(message): Error.call(this, message) builds a second
\* object, err, which is dropped (the return is commented out), so the
\* constructed object is a ReplaceError that inherits the empty message of
\* Error.prototype.
ReplaceError(message) == Thrown("ReplaceError", <<>>)

\* new RangeError(message), new TypeError(message): built-in constructors.
RangeError(message) == Thrown("RangeError", message)
TypeError(message) == Thrown("TypeError", message)

(***************************************************************************)
(* Fragment (src/model/fragment.ts).  Indices and positions are 0-based as *)
(* in the code; the child array is a 1-based sequence.                     *)
(***************************************************************************)
RECURSIVE SumNodeSize(_)
SumNodeSize(content) ==
    IF content = <<>> THEN 0 ELSE nodeSize(Head(content)) + SumNodeSize(Tail(content))

\* new Fragment(content): the size is computed from the children.
Fragment(content) == [content |-> content, size |-> SumNodeSize(content), id |-> 0]

\* new Fragment(content, size): the size is taken as given.
FragmentSized(content, size) == [content |-> content, size |-> size, id |-> 0]

childCount(f) == Len(f.content)
firstChild(f) == IF Len(f.content) > 0 THEN f.content[1] ELSE NullNode
lastChild(f) == IF Len(f.content) > 0 THEN f.content[Len(f.content)] ELSE NullNode
child(f, index) == f.content[index + 1]

\* Fragment.append with the text merge swapped (mutant).
append_swapped(f, other) ==
    IF other.size = 0 THEN f
    ELSE IF f.size = 0 THEN other
    ELSE LET last  == lastChild(f)
             first == firstChild(other)
             n     == Len(f.content)
         IN  IF isText(last) /\ sameMarkup(last, first)
             THEN FragmentSized(
                      [f.content EXCEPT ![n] = withText(last, first.text \o last.text)]
                          \o Tail(other.content),
                      f.size + other.size)
             ELSE FragmentSized(f.content \o other.content, f.size + other.size)

\* Fragment.append(other)
append(f, other) ==
    IF other.size = 0 THEN f
    ELSE IF f.size = 0 THEN other
    ELSE LET last  == lastChild(f)
             first == firstChild(other)
             n     == Len(f.content)
         IN  IF isText(last) /\ sameMarkup(last, first)
             THEN FragmentSized(
                      [f.content EXCEPT ![n] = withText(last, last.text \o first.text)]
                          \o Tail(other.content),
                      f.size + other.size)
             ELSE FragmentSized(f.content \o other.content, f.size + other.size)

\* Fragment.cut(from, to) and Node.cut / TextNode.cut, which it calls on a
\* partly covered child.  The loop reads this.content[i] while pos < to; past
\* the last child that read is undefined and child.nodeSize is a TypeError.
RECURSIVE cutLoop(_, _, _, _, _, _, _)
RECURSIVE nodeCut(_, _, _)
cutLoop(f, from, to, i, pos, result, size) ==
    IF ~(pos < to) THEN FragmentSized(result, size)
    ELSE IF i >= Len(f.content)
    THEN ThrownFragment(TypeError(<<"Cannot read properties of undefined">>))
    ELSE LET c   == f.content[i + 1]
             end == pos + nodeSize(c)
         IN  IF end > from
             THEN LET cc == IF pos < from \/ end > to
                            THEN IF isText(c)
                                 THEN nodeCut(c, Max(0, from - pos), Min(Len(c.text), to - pos))
                                 ELSE nodeCut(c, Max(0, from - pos - 1),
                                              Min(c.content.size, to - pos - 1))
                            ELSE c
                  IN  cutLoop(f, from, to, i + 1, end, Append(result, cc), size + nodeSize(cc))
             ELSE cutLoop(f, from, to, i + 1, end, result, size)

cut(f, from, to) ==
    IF from = 0 /\ to = f.size THEN f
    ELSE IF to > from THEN cutLoop(f, from, to, 0, 0, <<>>, 0)
    ELSE FragmentSized(<<>>, 0)

\* Fragment.cut(from): `to` defaults to this.size.
cutFrom(f, from) == cut(f, from, f.size)

nodeCut(n, from, to) ==
    IF isText(n)
    THEN IF from = 0 /\ to = Len(n.text) THEN n
         ELSE withText(n, SubSeq(n.text, from + 1, to))
    ELSE IF from = 0 /\ to = n.content.size THEN n
         ELSE copy(n, cut(n.content, from, to))

\* Fragment.cutByIndex(from, to)
cutByIndex(f, from, to) ==
    IF from = to THEN EmptyFragment
    ELSE IF from = 0 /\ to = Len(f.content) THEN f
    ELSE Fragment(ArraySlice(f.content, from, to))

\* Fragment.replaceChild that keeps the old cached size (mutant).
replaceChild_stale(f, index, node) ==
    LET current == f.content[index + 1]
    IN  IF current = node THEN f
        ELSE FragmentSized([f.content EXCEPT ![index + 1] = node], f.size)

\* Fragment.replaceChild that writes the child into this.content itself
\* instead of into a copy (mutant).
replaceChild_inplace(f, index, node) ==
    LET current == f.content[index + 1]
    IN  IF current = node THEN f
        ELSE [content |-> [f.content EXCEPT ![index + 1] = node],
              size |-> f.size + nodeSize(node) - nodeSize(current),
              id |-> f.id]

\* Fragment.replaceChild that adds the new node's size without taking the
\* replaced node's size off (mutant).
replaceChild_added(f, index, node) ==
    LET current == f.content[index + 1]
    IN  IF current = node THEN f
        ELSE FragmentSized([f.content EXCEPT ![index + 1] = node], f.size + nodeSize(node))

\* Fragment.replaceChild(index, node)
replaceChild(f, index, node) ==
    LET current == f.content[index + 1]
    IN  IF current = node THEN f
        ELSE FragmentSized([f.content EXCEPT ![index + 1] = node],
                           f.size + nodeSize(node) - nodeSize(current))

\* Fragment.addToStart(node) / Fragment.addToEnd(node)
addToStart(f, node) == FragmentSized(<<node>> \o f.content, f.size + nodeSize(node))
addToEnd(f, node) == FragmentSized(Append(f.content, node), f.size + nodeSize(node))

\* Fragment.findIndex(pos, round): {index, offset}, or a RangeError.
RECURSIVE findIndexLoop(_, _, _, _, _)
findIndexLoop(f, pos, round, i, curPos) ==
    LET cur == child(f, i)
        end == curPos + nodeSize(cur)
    IN  IF end >= pos
        THEN IF end = pos \/ round > 0
             THEN [index |-> i + 1, offset |-> end, threw |-> FALSE]
             ELSE [index |-> i, offset |-> curPos, threw |-> FALSE]
        ELSE findIndexLoop(f, pos, round, i + 1, end)

findIndex(f, pos) ==
    IF pos = 0 THEN [index |-> 0, offset |-> pos, threw |-> FALSE]
    ELSE IF pos = f.size THEN [index |-> Len(f.content), offset |-> pos, threw |-> FALSE]
    ELSE IF pos > f.size \/ pos < 0 THEN [index |-> 0, offset |-> 0, threw |-> TRUE]
    ELSE findIndexLoop(f, pos, -1, 0, 0)

\* Fragment.fromArray(array).  `joined` stays undefined (hasJoined = FALSE)
\* until the first merge.
RECURSIVE fromArrayLoop(_, _, _, _, _)
fromArrayLoop(array, i, hasJoined, joined, size) ==
    IF i >= Len(array)
    THEN FragmentSized(IF hasJoined THEN joined ELSE array, size)
    ELSE LET node == array[i + 1]
             sz   == size + nodeSize(node)
         IN  IF i > 0 /\ isText(node) /\ sameMarkup(array[i], node)
             THEN LET j    == IF hasJoined THEN joined ELSE ArraySlice(array, 0, i)
                      last == j[Len(j)]
                  IN  fromArrayLoop(array, i + 1, TRUE,
                          [j EXCEPT ![Len(j)] = withText(node, last.text \o node.text)], sz)
             ELSE IF hasJoined
             THEN fromArrayLoop(array, i + 1, TRUE, Append(joined, node), sz)
             ELSE fromArrayLoop(array, i + 1, FALSE, joined, sz)

\* Fragment.fromArray that joins only the first pair of a run (mutant).
fromArray_once(array) ==
    LET hit == {i \in 2..Len(array) : isText(array[i]) /\ sameMarkup(array[i - 1], array[i])}
    IN  IF hit = {} THEN Fragment(array)
        ELSE LET i == CHOOSE k \in hit : \A j \in hit : k <= j
             IN  Fragment(SubSeq(array, 1, i - 2)
                          \o <<withText(array[i], array[i - 1].text \o array[i].text)>>
                          \o SubSeq(array, i + 1, Len(array)))

fromArray(array) ==
    IF Len(array) = 0 THEN EmptyFragment
    ELSE fromArrayLoop(array, 0, FALSE, <<>>, 0)

\* Fragment.from(nodes) for a single node.
fragmentFromNode(n) == FragmentSized(<<n>>, nodeSize(n))

(***************************************************************************)
(* Schema content models (NodeType.validContent).                          *)
(*   doc, blockquote : block+                                              *)
(*   paragraph       : text*   (all marks allowed)                         *)
(*   code_block      : text*   (no marks allowed)                          *)
(***************************************************************************)
validContent(type, f) ==
    LET kids == {f.content[i] : i \in 1..Len(f.content)}
    IN  CASE type \in {"doc", "blockquote"} ->
                 Len(f.content) >= 1 /\ \A k \in kids : k.type \in BlockTypes /\ k.marks = {}
          [] type \in TextblockTypes ->
                 \A k \in kids : isText(k) /\ allowsMarks(type, k.marks)
          [] OTHER -> Len(f.content) = 0

(***************************************************************************)
(* ResolvedPos: the ancestor path of a position.  path[d + 1] holds the    *)
(* node at depth d, the index into it and the offset of that index.        *)
(***************************************************************************)
NullPos == [pos |-> -1, path |-> <<>>, parentOffset |-> 0]

isNullPos(p) == p.pos = -1

RECURSIVE resolveLoop(_, _, _, _, _)
resolveLoop(node, path, start, parentOffset, pos) ==
    LET fi    == findIndex(node.content, parentOffset)
        rem   == parentOffset - fi.offset
        path2 == Append(path, [node |-> node, index |-> fi.index, offset |-> start + fi.offset])
    IN  IF rem = 0 \/ isText(child(node.content, fi.index))
        THEN [pos |-> pos, path |-> path2, parentOffset |-> parentOffset]
        ELSE resolveLoop(child(node.content, fi.index), path2, start + fi.offset + 1, rem - 1, pos)

\* ResolvedPos.resolve(doc, pos), for 0 <= pos <= doc.content.size.
resolve(d, pos) == resolveLoop(d, <<>>, 0, pos, pos)

inRange(d, pos) == pos >= 0 /\ pos <= d.content.size

posDepth(p) == Len(p.path) - 1
posNode(p, d) == IF d + 1 \in 1..Len(p.path) THEN p.path[d + 1].node ELSE NullNode
posIndex(p, d) == IF d + 1 \in 1..Len(p.path) THEN p.path[d + 1].index ELSE -1
posStart(p, d) == IF d = 0 THEN 0 ELSE p.path[d].offset + 1
posEnd(p, d) == posStart(p, d) + posNode(p, d).content.size
posParent(p) == posNode(p, posDepth(p))
textOffset(p) == p.pos - p.path[Len(p.path)].offset

nodeAfter(p) ==
    LET parent == posParent(p)
        index  == posIndex(p, posDepth(p))
        dOff   == textOffset(p)
    IN  IF index = Len(parent.content.content) THEN NullNode
        ELSE LET c == child(parent.content, index)
             IN  IF dOff > 0 THEN nodeCut(c, dOff, nodeSize(c)) ELSE c

nodeBefore(p) ==
    LET parent == posParent(p)
        index  == posIndex(p, posDepth(p))
        dOff   == textOffset(p)
    IN  IF dOff > 0 THEN nodeCut(child(parent.content, index), 0, dOff)
        ELSE IF index = 0 THEN NullNode
        ELSE child(parent.content, index - 1)

\* ResolvedPos.sharedDepth(pos)
sharedDepth(p, pos) ==
    LET ds == {d \in 1..posDepth(p) : posStart(p, d) <= pos /\ posEnd(p, d) >= pos}
    IN  IF ds = {} THEN 0 ELSE CHOOSE d \in ds : \A e \in ds : e <= d

(***************************************************************************)
(* Slice and the replace algorithm (src/model/replace.ts).                 *)
(***************************************************************************)
Slice(content, openStart, openEnd) ==
    [content |-> content, openStart |-> openStart, openEnd |-> openEnd]

EmptySlice == Slice(EmptyFragment, 0, 0)

\* Slice.size
sliceSize(s) == s.content.size - s.openStart - s.openEnd

\* checkJoin(main, sub): the thrown error, or NullNode when the join is fine.
checkJoin(main, sub) ==
    IF isNull(sub) \/ isNull(main)
    THEN TypeError(<<"Cannot read properties of undefined">>)
    ELSE IF ~compatibleContent(sub.type, main.type)
    THEN ReplaceError(<<"Cannot join", sub.type, "onto", main.type>>)
    ELSE NullNode

\* joinable that skips checkJoin (mutant).
joinable_any(before, after, depth) == posNode(before, depth)

\* joinable($before, $after, depth): the node to join onto, or the error.
joinable(before, after, depth) ==
    LET node == posNode(before, depth)
        cj   == checkJoin(node, posNode(after, depth))
    IN  IF isThrown(cj) THEN cj ELSE node

\* addNode that always pushes the child (mutant).
addNode_push(c, target) == Append(target, c)

\* addNode(child, target): the target array after the call.
addNode(c, target) ==
    LET last == Len(target)
    IN  IF last >= 1 /\ isText(c) /\ sameMarkup(c, target[last])
        THEN [target EXCEPT ![last] = withText(c, target[last].text \o c.text)]
        ELSE Append(target, c)

RECURSIVE addChildren(_, _, _, _)
addChildren(node, i, endIndex, target) ==
    IF i >= endIndex THEN target
    ELSE addChildren(node, i + 1, endIndex, addNode(child(node.content, i), target))

\* addRange($start, $end, depth, target): the target array after the call.
addRange(start, end, depth, target) ==
    LET node     == posNode(IF isNullPos(end) THEN start ELSE end, depth)
        endIndex == IF isNullPos(end) THEN Len(node.content.content) ELSE posIndex(end, depth)
        idx0     == IF isNullPos(start) THEN 0 ELSE posIndex(start, depth)
        cutStart == ~isNullPos(start) /\ ~(posDepth(start) > depth) /\ textOffset(start) > 0
        bump     == ~isNullPos(start) /\ (posDepth(start) > depth \/ cutStart)
        t1       == IF cutStart THEN addNode(nodeAfter(start), target) ELSE target
        t2       == addChildren(node, IF bump THEN idx0 + 1 ELSE idx0, endIndex, t1)
    IN  IF ~isNullPos(end) /\ posDepth(end) = depth /\ textOffset(end) > 0
        THEN addNode(nodeBefore(end), t2)
        ELSE t2

\* close that accepts any content (mutant).
close_unchecked(node, content) ==
    IF fragmentThrew(content) THEN content.content[1] ELSE copy(node, content)

\* close(node, content): the closed node, or the error (its own or the one
\* thrown while the content was being computed).
close(node, content) ==
    IF fragmentThrew(content) THEN content.content[1]
    ELSE IF ~validContent(node.type, content)
    THEN ReplaceError(<<"Invalid content for node", node.type>>)
    ELSE copy(node, content)

RECURSIVE replaceTwoWay(_, _, _)
replaceTwoWay(from, to, depth) ==
    LET c0 == addRange(NullPos, from, depth, <<>>)
    IN  IF posDepth(from) > depth
        THEN LET type == joinable(from, to, depth + 1)
             IN  IF isThrown(type) THEN ThrownFragment(type)
                 ELSE LET inner == close(type, replaceTwoWay(from, to, depth + 1))
                      IN  IF isThrown(inner) THEN ThrownFragment(inner)
                          ELSE Fragment(addRange(to, NullPos, depth, addNode(inner, c0)))
        ELSE Fragment(addRange(to, NullPos, depth, c0))

RECURSIVE replaceThreeWay(_, _, _, _, _)
replaceThreeWay(from, start, end, to, depth) ==
    LET openStart == IF posDepth(from) > depth THEN joinable(from, start, depth + 1) ELSE NullNode
        openEnd   == IF posDepth(to) > depth THEN joinable(end, to, depth + 1) ELSE NullNode
        c0        == addRange(NullPos, from, depth, <<>>)
    IN  IF isThrown(openStart) THEN ThrownFragment(openStart)
        ELSE IF isThrown(openEnd) THEN ThrownFragment(openEnd)
        ELSE IF ~isNull(openStart) /\ ~isNull(openEnd)
                /\ posIndex(start, depth) = posIndex(end, depth)
        THEN LET cj == checkJoin(openStart, openEnd)
             IN  IF isThrown(cj) THEN ThrownFragment(cj)
                 ELSE LET inner == close(openStart,
                                         replaceThreeWay(from, start, end, to, depth + 1))
                      IN  IF isThrown(inner) THEN ThrownFragment(inner)
                          ELSE Fragment(addRange(to, NullPos, depth, addNode(inner, c0)))
        ELSE LET left  == IF isNull(openStart) THEN NullNode
                          ELSE close(openStart, replaceTwoWay(from, start, depth + 1))
                 c1    == IF isNull(openStart) THEN c0 ELSE addNode(left, c0)
                 c2    == addRange(start, end, depth, c1)
                 right == IF isNull(openEnd) THEN NullNode
                          ELSE close(openEnd, replaceTwoWay(end, to, depth + 1))
                 c3    == IF isNull(openEnd) THEN c2 ELSE addNode(right, c2)
             IN  IF isThrown(left) THEN ThrownFragment(left)
                 ELSE IF isThrown(right) THEN ThrownFragment(right)
                 ELSE Fragment(addRange(to, NullPos, depth, c3))

\* prepareSliceForReplace(slice, $along): the slice content wrapped in copies
\* of $along's ancestors, and the two boundary positions inside it.
RECURSIVE wrapAlong(_, _, _)
wrapAlong(node, along, i) ==
    IF i < 0 THEN node
    ELSE wrapAlong(copy(posNode(along, i), fragmentFromNode(node)), along, i - 1)

prepareSliceForReplace(slice, along) ==
    LET extra == posDepth(along) - slice.openStart
        node  == wrapAlong(copy(posNode(along, extra), slice.content), along, extra - 1)
    IN  [start |-> resolve(node, slice.openStart + extra),
         end   |-> resolve(node, node.content.size - slice.openEnd - extra)]

RECURSIVE replaceOuter(_, _, _, _)
replaceOuter(from, to, slice, depth) ==
    LET index == posIndex(from, depth)
        node  == posNode(from, depth)
    IN  IF index = posIndex(to, depth) /\ depth < posDepth(from) - slice.openStart
        THEN LET inner == replaceOuter(from, to, slice, depth + 1)
             IN  IF isThrown(inner) THEN inner
                 ELSE copy(node, replaceChild(node.content, index, inner))
        ELSE IF slice.content.size = 0
        THEN close(node, replaceTwoWay(from, to, depth))
        ELSE IF slice.openStart = 0 /\ slice.openEnd = 0
                /\ posDepth(from) = depth /\ posDepth(to) = depth
        THEN LET parent  == posParent(from)
                 content == parent.content
             IN  close(parent,
                       append(append(cut(content, 0, from.parentOffset), slice.content),
                              cutFrom(content, to.parentOffset)))
        ELSE LET se == prepareSliceForReplace(slice, from)
             IN  close(node, replaceThreeWay(from, se.start, se.end, to, depth))

\* replace without the open-depth consistency check (mutant).
replace_nodepthcheck(from, to, slice) ==
    IF slice.openStart > posDepth(from)
    THEN ReplaceError(<<"Inserted content deeper than insertion position">>)
    ELSE replaceOuter(from, to, slice, 0)

\* replace($from, $to, slice): the new document, or the thrown error.
replace(from, to, slice) ==
    IF slice.openStart > posDepth(from)
    THEN ReplaceError(<<"Inserted content deeper than insertion position">>)
    ELSE IF posDepth(from) - slice.openStart /= posDepth(to) - slice.openEnd
    THEN ReplaceError(<<"Inconsistent open depths">>)
    ELSE replaceOuter(from, to, slice, 0)

\* Node.replace(from, to, slice): resolve throws a RangeError for a position
\* outside the document.
nodeReplace(d, from, to, slice) ==
    IF ~inRange(d, from) \/ ~inRange(d, to)
    THEN RangeError(<<"Position out of range">>)
    ELSE replace(resolve(d, from), resolve(d, to), slice)

\* Node.slice(from, to)
nodeSlice(d, from, to) ==
    IF from = to THEN EmptySlice
    ELSE LET rf    == resolve(d, from)
             rt    == resolve(d, to)
             depth == sharedDepth(rf, to)
             start == posStart(rf, depth)
             node  == posNode(rf, depth)
         IN  Slice(cut(node.content, rf.pos - start, rt.pos - start),
                   posDepth(rf) - depth, posDepth(rt) - depth)

(***************************************************************************)
(* Marks, StepResult and the mark steps (src/unnamed/part_004).            *)
(***************************************************************************)
\* Mark.addToSet(set): the set is returned unchanged when it holds the mark
\* already or holds a mark that excludes it; otherwise the marks it excludes
\* are dropped and it is added.
addToSet(m, set) ==
    IF m \in set \/ \E o \in set : ~excludes(m, o) /\ excludes(o, m)
    THEN set
    ELSE {o \in set : ~excludes(m, o)} \cup {m}

\* Mark.removeFromSet(set)
removeFromSet(m, set) == set \ {m}

\* A step is a record [kind, from, to, mark, slice, reason]; kind is
\* "addMark", "removeMark", "replace" or "fail".
AddMarkStep(from, to, m) ==
    [kind |-> "addMark", from |-> from, to |-> to, mark |-> m, slice |-> EmptySlice,
     reason |-> <<>>]

RemoveMarkStep(from, to, m) ==
    [kind |-> "removeMark", from |-> from, to |-> to, mark |-> m, slice |-> EmptySlice,
     reason |-> <<>>]

\* The structural replace step of the spec (section 2): replace [from, to)
\* by a slice.
ReplaceStep(from, to, slice) ==
    [kind |-> "replace", from |-> from, to |-> to, mark |-> "", slice |-> slice,
     reason |-> <<>>]

\* A step of any other kind whose apply reports failure with a reason of its
\* own (the generic Step contract, spec section 4.3).
FailStep(reason) ==
    [kind |-> "fail", from |-> 0, to |-> 0, mark |-> "", slice |-> EmptySlice,
     reason |-> reason]

\* The callbacks without the test of the parent's type (mutant).
markCallback_anyparent(step, node, parent) ==
    IF step.kind = "addMark" THEN mark(node, addToSet(step.mark, node.marks))
    ELSE mark(node, removeFromSet(step.mark, node.marks))

\* The callbacks the two apply methods hand to mapFragment.
markCallback(step, node, parent) ==
    IF step.kind = "addMark"
    THEN IF ~allowsMarkType(parent.type, step.mark) THEN node
         ELSE mark(node, addToSet(step.mark, node.marks))
    ELSE mark(node, removeFromSet(step.mark, node.marks))

\* mapFragment(fragment, f, parent)
RECURSIVE mapFragment(_, _, _)
RECURSIVE mapChildren(_, _, _, _, _)
mapChildren(fragment, step, parent, i, mapped) ==
    IF i >= childCount(fragment) THEN mapped
    ELSE LET c0 == child(fragment, i)
             c1 == IF c0.content.size /= 0 THEN copy(c0, mapFragment(c0.content, step, c0))
                   ELSE c0
             c2 == IF isInline(c1) THEN markCallback(step, c1, parent) ELSE c1
         IN  mapChildren(fragment, step, parent, i + 1, Append(mapped, c2))

mapFragment(fragment, step, parent) ==
    fromArray(mapChildren(fragment, step, parent, 0, <<>>))

\* StepResult: doc and failed as the code reads them.  `failed` is the
\* message; the empty tuple stands for both null and the empty string, the
\* two values of the field that `!result.failed` treats alike.  `kind` says
\* which constructor built the result ("ok", "fail"), or "throw" when apply
\* threw instead of returning (then `error` is what it threw).
StepResultOk(d) == [kind |-> "ok", doc |-> d, failed |-> <<>>, error |-> NullNode]
StepResultFail(message) == [kind |-> "fail", doc |-> NullNode, failed |-> message, error |-> NullNode]
StepThrew(e) == [kind |-> "throw", doc |-> NullNode, failed |-> <<>>, error |-> e]

\* StepResult.fromReplace(doc, from, to, slice): a ReplaceError becomes a
\* failed result carrying the error's message; any other error is rethrown.
replaceOutcome(r) ==
    IF r.type = "!ReplaceError" THEN StepResultFail(r.text)
    ELSE IF isThrown(r) THEN StepThrew(r)
    ELSE StepResultOk(r)

fromReplace(d, from, to, slice) == replaceOutcome(nodeReplace(d, from, to, slice))

\* The slice both apply methods build: the old slice with its inline nodes
\* re-marked; the parent of its top-level nodes is $from.node(sharedDepth).
markedSlice(step, oldSlice, rf) ==
    Slice(mapFragment(oldSlice.content, step, posNode(rf, sharedDepth(rf, step.to))),
          oldSlice.openStart, oldSlice.openEnd)

\* AddMarkStep.apply(doc) / RemoveMarkStep.apply(doc)
markStepApply(step, d) ==
    IF isNull(d) THEN StepThrew(TypeError(<<"Cannot read properties of null">>))
    ELSE IF ~inRange(d, step.from) \/ ~inRange(d, step.to)
    THEN StepThrew(RangeError(<<"Position out of range">>))
    ELSE CHOOSE result \in
             { fromReplace(d, step.from, step.to, slice) :
                  slice \in { markedSlice(step, oldSlice, resolve(d, step.from)) :
                                 oldSlice \in {nodeSlice(d, step.from, step.to)} } } : TRUE

\* AddMarkStep.invert() / RemoveMarkStep.invert()
invert(step) ==
    IF step.kind = "addMark" THEN RemoveMarkStep(step.from, step.to, step.mark)
    ELSE AddMarkStep(step.from, step.to, step.mark)

\* Step.apply(doc), by kind.
apply(step, d) ==
    CASE step.kind \in {"addMark", "removeMark"} -> markStepApply(step, d)
      [] step.kind = "replace" ->
            IF isNull(d) THEN StepThrew(TypeError(<<"Cannot read properties of null">>))
            ELSE fromReplace(d, step.from, step.to, step.slice)
      [] OTHER -> StepResultFail(step.reason)

\* Step.getMap(): the ranges [start, oldSize, newSize] of the step's map.  A
\* mark step changes no position (StepMap.empty).
getMap(step) ==
    IF step.kind = "replace"
    THEN <<step.from, step.to - step.from, sliceSize(step.slice)>>
    ELSE <<>>

(***************************************************************************)
(* StepMap and Mapping: position translation.  A step map is the flat      *)
(* sequence of its ranges, three numbers (start, oldSize, newSize) each; a *)
(* mapping is the sequence of its step maps.                               *)
(***************************************************************************)
\* MapResult: the mapped position and whether the position was deleted.
MapResult(pos, deleted) == [pos |-> pos, deleted |-> deleted]

\* StepMap.mapResult(pos, assoc): the first range that reaches pos decides.
\* A position inside a replaced range goes to the side assoc names; it counts
\* as deleted unless it sits on the edge of the range that assoc points away
\* from.
RECURSIVE stepMapLoop(_, _, _, _, _)
stepMapLoop(ranges, pos, assoc, i, diff) ==
    IF i > Len(ranges) \/ ranges[i] > pos THEN MapResult(pos + diff, FALSE)
    ELSE LET start   == ranges[i]
             oldSize == ranges[i + 1]
             newSize == ranges[i + 2]
             end     == start + oldSize
         IN  IF pos <= end
             THEN LET side == IF oldSize = 0 THEN assoc
                              ELSE IF pos = start THEN -1
                              ELSE IF pos = end THEN 1
                              ELSE assoc
                  IN  MapResult(start + diff + (IF side < 0 THEN 0 ELSE newSize),
                                IF assoc < 0 THEN pos /= start ELSE pos /= end)
             ELSE stepMapLoop(ranges, pos, assoc, i + 3, diff + newSize - oldSize)

stepMapResult(ranges, pos, assoc) == stepMapLoop(ranges, pos, assoc, 1, 0)

\* StepMap.map(pos, assoc)
stepMapMap(ranges, pos, assoc) == stepMapResult(ranges, pos, assoc).pos

\* Mapping.mapResult(pos, assoc): through every map in order; deleted when any
\* map deleted the position.
RECURSIVE mappingLoop(_, _, _, _, _)
mappingLoop(mapping, pos, assoc, i, deleted) ==
    IF i > Len(mapping) THEN MapResult(pos, deleted)
    ELSE LET result == stepMapResult(mapping[i], pos, assoc)
         IN  mappingLoop(mapping, result.pos, assoc, i + 1, deleted \/ result.deleted)

mappingMapResult(mapping, pos, assoc) == mappingLoop(mapping, pos, assoc, 1, FALSE)

\* Mapping.map(pos, assoc)
mappingMap(mapping, pos, assoc) == mappingMapResult(mapping, pos, assoc).pos

(***************************************************************************)
(* Transform (src/transform/transform.ts).  A transform is the record      *)
(* [doc, steps, docs, maps] of its four fields.                            *)
(***************************************************************************)
\* new TransformError(message): like ReplaceError, the constructed object
\* does not carry the message.
TransformError(message) == Thrown("TransformError", <<>>)

\* `if (result.failed)`: null and the empty string are falsy.
truthy(failed) == failed /= <<>>

\* new Transform(doc)
NewTransform(d) == [doc |-> d, steps |-> <<>>, docs |-> <<>>, maps |-> <<>>]

\* addStep that pushes the new document instead of the old one (mutant).
addStep_newdoc(tr, step, d) ==
    [doc   |-> d,
     steps |-> Append(tr.steps, step),
     docs  |-> Append(tr.docs, d),
     maps  |-> Append(tr.maps, getMap(step))]

\* addStep that puts the step's map in front of the earlier maps (mutant).
addStep_mapfirst(tr, step, d) ==
    [doc   |-> d,
     steps |-> Append(tr.steps, step),
     docs  |-> Append(tr.docs, tr.doc),
     maps  |-> <<getMap(step)>> \o tr.maps]

\* Transform.addStep(step, doc)
addStep(tr, step, d) ==
    [doc   |-> d,
     steps |-> Append(tr.steps, step),
     docs  |-> Append(tr.docs, tr.doc),
     maps  |-> Append(tr.maps, getMap(step))]

\* maybeStep once apply has returned `result`: the transform afterwards and
\* what the call returned (or threw, when apply threw).
maybeStepWith(tr, step, result) ==
    IF result.kind = "throw"
    THEN [tr |-> tr, outcome |-> "threw", result |-> result, error |-> result.error]
    ELSE IF ~truthy(result.failed)
    THEN [tr |-> addStep(tr, step, result.doc), outcome |-> "returned",
          result |-> result, error |-> NullNode]
    ELSE [tr |-> tr, outcome |-> "returned", result |-> result, error |-> NullNode]

\* Transform.maybeStep(step)
maybeStep(tr, step) ==
    CHOOSE r \in {maybeStepWith(tr, step, result) : result \in {apply(step, tr.doc)}} : TRUE

\* step once maybeStep has returned r: outcome "this" when it returned the
\* transform.
stepWith(r) ==
    IF r.outcome = "threw" THEN r
    ELSE IF truthy(r.result.failed)
    THEN [r EXCEPT !.outcome = "threw", !.error = TransformError(r.result.failed)]
    ELSE [r EXCEPT !.outcome = "this"]

\* Transform.step(step)
step(tr, object) == CHOOSE r \in {stepWith(m) : m \in {maybeStep(tr, object)}} : TRUE

\* Transform.before
before(tr) == IF Len(tr.docs) > 0 THEN tr.docs[1] ELSE tr.doc

\* Transform.docChanged
docChanged(tr) == Len(tr.steps) > 0

(***************************************************************************)
(* The documents, slices and steps the checks range over.                  *)
(***************************************************************************)
\* Schema.text(text, marks) and Schema.node(type, null, content)
Text(s, m) == [type |-> "text", text |-> s, marks |-> m, content |-> EmptyFragment]
Elem(t, kids) == [type |-> t, text |-> <<>>, marks |-> {}, content |-> Fragment(kids)]
Para(kids) == Elem("paragraph", kids)
Code(kids) == Elem("code_block", kids)
Quote(kids) == Elem("blockquote", kids)
Doc(kids) == Elem("doc", kids)

Marks == {"strong", "code"}

Ta == Text(<<"a">>, {})
Tbc == Text(<<"b", "c">>, {})
TbcStrong == Text(<<"b", "c">>, {"strong"})
TaCode == Text(<<"a">>, {"code"})
Tx == Text(<<"x">>, {})
TxStrong == Text(<<"x">>, {"strong"})

\* Bounds.
MaxCalls == 3       \* step/maybeStep calls on one transform

\* The documents a transform starts from.
\*   positions of the first:   0 <p> 1 a 2 b 3 c 4 </p> 5
\*   positions of the second:  0 <p> 1 a 2 </p> 3 <code_block> 4 b 5 c 6 </code_block> 7
StartDocs ==
    { Doc(<<Para(<<Ta, TbcStrong>>)>>),
      Doc(<<Para(<<TaCode>>), Code(<<Tbc>>)>>) }

\* The steps a caller hands to a transform: mark steps that merge, split and
\* leave text alone, replace steps that delete, insert, join two textblocks
\* and put a paragraph where none may be, a step that reports a failure of
\* its own, and a mark step beyond the end of the smaller document.
StepMenu ==
    { AddMarkStep(1, 4, "strong"),
      RemoveMarkStep(2, 4, "strong"),
      AddMarkStep(1, 2, "code"),
      AddMarkStep(5, 7, "strong"),
      ReplaceStep(2, 3, EmptySlice),
      ReplaceStep(2, 4, EmptySlice),
      ReplaceStep(2, 2, Slice(Fragment(<<Tx>>), 0, 0)),
      ReplaceStep(1, 1, Slice(Fragment(<<Para(<<Tx>>)>>), 0, 0)),
      ReplaceStep(0, 0, Slice(Fragment(<<Para(<<Tx>>)>>), 0, 0)),
      FailStep(<<"reason">>) }

(***************************************************************************)
(* Specification Spec: a transform under step and maybeStep calls.         *)
(***************************************************************************)
NoRet ==
    [call |-> "new", step |-> FailStep(<<>>), pre |-> NewTransform(NullNode),
     outcome |-> "returned", result |-> StepResultOk(NullNode), error |-> NullNode]

Idle == [op |-> "idle"]

tr == [doc |-> doc, steps |-> steps, docs |-> docs, maps |-> maps]

Init ==
    /\ doc \in StartDocs
    /\ steps = <<>>
    /\ docs = <<>>
    /\ maps = <<>>
    /\ ret = NoRet
    /\ hist = [doc0 |-> doc, calls |-> 0, ok |-> <<>>]
    /\ inp = Idle
    /\ out = Idle

\* The effect both calls share: the fields after the call, the outcome, and
\* the history of applications that succeeded.
Called(name, st, r) ==
    /\ doc' = r.tr.doc
    /\ steps' = r.tr.steps
    /\ docs' = r.tr.docs
    /\ maps' = r.tr.maps
    /\ ret' = [call |-> name, step |-> st, pre |-> tr, outcome |-> r.outcome,
               result |-> r.result, error |-> r.error]
    /\ hist' = [hist EXCEPT
                  !.calls = @ + 1,
                  !.ok = IF r.result.kind = "ok"
                         THEN Append(@, [step |-> st, before |-> doc, after |-> r.result.doc])
                         ELSE @]
    /\ UNCHANGED <<inp, out>>

CallStep ==
    /\ hist.calls < MaxCalls
    /\ \E st \in StepMenu : \E r \in {step(tr, st)} : Called("step", st, r)

CallMaybeStep ==
    /\ hist.calls < MaxCalls
    /\ \E st \in StepMenu : \E r \in {maybeStep(tr, st)} : Called("maybeStep", st, r)

Next == CallStep \/ CallMaybeStep

Spec == Init /\ [][Next]_vars

(***************************************************************************)
(* Properties of documents used by the checks.                             *)
(***************************************************************************)
\* No two adjacent children are text nodes with the same marks, at any depth.
RECURSIVE Normalized(_)
Normalized(f) ==
    /\ \A i \in 1..(Len(f.content) - 1) :
           ~(isText(f.content[i]) /\ isText(f.content[i + 1])
             /\ f.content[i].marks = f.content[i + 1].marks)
    /\ \A i \in 1..Len(f.content) : Normalized(f.content[i].content)

\* Every node's content is accepted by its type, at any depth.
RECURSIVE ValidDeep(_)
ValidDeep(n) ==
    /\ validContent(n.type, n.content)
    /\ \A i \in 1..Len(n.content.content) : ValidDeep(n.content.content[i])

\* The nodes of a slice that are not cut open on either side are valid.
RECURSIVE ClosedValid(_, _, _)
ClosedValid(f, openStart, openEnd) ==
    \A i \in 1..Len(f.content) :
        LET os == IF i = 1 /\ openStart > 0 THEN openStart - 1 ELSE -1
            oe == IF i = Len(f.content) /\ openEnd > 0 THEN openEnd - 1 ELSE -1
        IN  IF os >= 0 \/ oe >= 0
            THEN ClosedValid(f.content[i].content, Max(os, 0), Max(oe, 0))
            ELSE ValidDeep(f.content[i])

\* Slice.maxOpen(fragment, openIsolating).  `isolating` is the set of node
\* types whose spec says isolating; the schema of the documents above has
\* none.  The loops run down the first (last) children while there is a node
\* that is no leaf and, unless openIsolating, not isolating.
RECURSIVE openDepth(_, _, _, _)
openDepth(n, first, openIsolating, isolating) ==
    IF isNull(n) \/ isLeaf(n) \/ ~(openIsolating \/ n.type \notin isolating) THEN 0
    ELSE 1 + openDepth(IF first THEN firstChild(n.content) ELSE lastChild(n.content),
                       first, openIsolating, isolating)

\* maxOpen that opens isolating nodes whatever openIsolating says (mutant).
maxOpen_crossing(f, openIsolating, isolating) ==
    Slice(f, openDepth(firstChild(f), TRUE, TRUE, isolating),
             openDepth(lastChild(f), FALSE, TRUE, isolating))

maxOpen(f, openIsolating, isolating) ==
    Slice(f, openDepth(firstChild(f), TRUE, openIsolating, isolating),
             openDepth(lastChild(f), FALSE, openIsolating, isolating))

(***************************************************************************)
(* Inputs of the pure operations.                                          *)
(***************************************************************************)
MaxBlocks == 2      \* children of a document
MaxKids == 2        \* children of a fragment handed to append and cut
MaxArr == 3         \* nodes in an array handed to fromArray

\* Documents: every sequence of 1..MaxBlocks of these blocks.
Blocks ==
    { Para(<<Ta, TbcStrong>>),
      Para(<<Tbc>>),
      Code(<<Tbc>>),
      Quote(<<Para(<<Ta>>), Para(<<Tbc>>)>>) }

Docs == {Doc(kids) : kids \in SeqsUpTo(Blocks, MaxBlocks) \ {<<>>}}

\* Slices: these contents with every open depth their shape allows.
SliceContents ==
    { <<>>,
      <<Tx>>,
      <<TbcStrong>>,
      <<Para(<<Tx>>)>>,
      <<Para(<<Tx>>), Para(<<TbcStrong>>)>>,
      <<Code(<<Tx>>)>>,
      <<Quote(<<Para(<<Tx>>)>>)>> }

Slices ==
    UNION { {Slice(Fragment(c), os, oe) :
                os \in 0..maxOpen(Fragment(c), TRUE, {}).openStart,
                oe \in 0..maxOpen(Fragment(c), TRUE, {}).openEnd} : c \in SliceContents }

\* Fragments: every array of 0..MaxKids of these nodes that has no two
\* adjacent text nodes with the same marks.
FragNodes == {Ta, Tbc, TbcStrong, TxStrong, Para(<<Ta, TbcStrong>>)}

Fragments == {f \in {Fragment(a) : a \in SeqsUpTo(FragNodes, MaxKids)} : Normalized(f)}

Arrays == SeqsUpTo(FragNodes, MaxArr)

Ranges(size) == {<<f, t>> \in (0..size) \X (0..size) : f <= t}

\* The transform is not in use while a pure operation is checked.
NoTransform ==
    /\ doc = NullNode
    /\ steps = <<>>
    /\ docs = <<>>
    /\ maps = <<>>
    /\ ret = NoRet
    /\ hist = [doc0 |-> NullNode, calls |-> 0, ok |-> <<>>]

TransformUnchanged == UNCHANGED <<doc, steps, docs, maps, ret, hist>>

(***************************************************************************)
(* Specification SpecReplace: Node.replace on a document, a range and a    *)
(* slice.                                                                  *)
(***************************************************************************)
InitReplace ==
    /\ NoTransform
    /\ \E d \in Docs : \E r \in Ranges(d.content.size) : \E sl \in Slices :
           inp = [op |-> "replace", doc |-> d, from |-> r[1], to |-> r[2], slice |-> sl]
    /\ out = Idle

DoReplace ==
    /\ inp.op = "replace"
    /\ out = Idle
    /\ out' = [op |-> "replaced", doc |-> nodeReplace(inp.doc, inp.from, inp.to, inp.slice)]
    /\ UNCHANGED inp
    /\ TransformUnchanged

NextReplace == DoReplace

SpecReplace == InitReplace /\ [][NextReplace]_vars

(***************************************************************************)
(* Specification SpecFragment: append, cut and fromArray.                  *)
(***************************************************************************)
FragmentInput(op, a, b, arr, from, to) ==
    [op |-> op, a |-> a, b |-> b, arr |-> arr, from |-> from, to |-> to]

InitFragment ==
    /\ NoTransform
    /\ \/ inp \in {FragmentInput("append", a, b, <<>>, 0, 0) : a \in Fragments, b \in Fragments}
       \/ \E a \in Fragments : \E r \in Ranges(a.size) :
              inp = FragmentInput("cut", a, EmptyFragment, <<>>, r[1], r[2])
       \/ inp \in {FragmentInput("fromArray", EmptyFragment, EmptyFragment, arr, 0, 0) :
                      arr \in Arrays}
    /\ out = Idle

\* a.append(b), then the two cuts at a.size.
DoAppend ==
    /\ inp.op = "append"
    /\ out = Idle
    /\ \E r \in {append(inp.a, inp.b)} :
           out' = [op   |-> "append",
                   r    |-> r,
                   head |-> cut(r, 0, inp.a.size),
                   tail |-> cutFrom(r, inp.a.size)]
    /\ UNCHANGED inp
    /\ TransformUnchanged

DoCut ==
    /\ inp.op = "cut"
    /\ out = Idle
    /\ out' = [op   |-> "cut",
               r    |-> cut(inp.a, inp.from, inp.to),
               head |-> EmptyFragment,
               tail |-> EmptyFragment]
    /\ UNCHANGED inp
    /\ TransformUnchanged

DoFromArray ==
    /\ inp.op = "fromArray"
    /\ out = Idle
    /\ out' = [op   |-> "fromArray",
               r    |-> fromArray(inp.arr),
               head |-> EmptyFragment,
               tail |-> EmptyFragment]
    /\ UNCHANGED inp
    /\ TransformUnchanged

NextFragment == DoAppend \/ DoCut \/ DoFromArray

SpecFragment == InitFragment /\ [][NextFragment]_vars

(***************************************************************************)
(* Specification SpecStep: a mark step applied to a document, then its     *)
(* inverse applied to the result.                                          *)
(***************************************************************************)
MarkSteps(d) ==
    UNION { {AddMarkStep(r[1], r[2], m), RemoveMarkStep(r[1], r[2], m)} :
               r \in Ranges(d.content.size), m \in Marks }

InitStep ==
    /\ NoTransform
    /\ \E d \in Docs : \E st \in MarkSteps(d) :
           inp = [op |-> "markStep", doc |-> d, step |-> st]
    /\ out = Idle

applyInverse(st, res) == IF res.kind = "ok" THEN apply(invert(st), res.doc) ELSE res

DoApplyAndInvert ==
    /\ inp.op = "markStep"
    /\ out = Idle
    /\ \E res \in {apply(inp.step, inp.doc)} :
           out' = [op |-> "markStep", res |-> res, back |-> applyInverse(inp.step, res)]
    /\ UNCHANGED inp
    /\ TransformUnchanged

NextStep == DoApplyAndInvert

SpecStep == InitStep /\ [][NextStep]_vars

(***************************************************************************)
(* Node.replace: size, open depths, validity (checked under SpecReplace).  *)
(***************************************************************************)
replaced == out.op = "replaced"
returnedDoc == replaced /\ ~isThrown(out.doc)

\* C1: when replace(from, to, slice) returns a document, its content size is
\* the old content size, minus the length of the replaced range, plus the
\* size of the slice.
C1_ReplaceSize ==
    returnedDoc =>
        out.doc.content.size
            = inp.doc.content.size - (inp.to - inp.from) + sliceSize(inp.slice)

\* C1 is exercised: an open slice replaced a non-empty range below the top
\* level and a document came back.
C1_Witness ==
    /\ returnedDoc
    /\ inp.from < inp.to
    /\ inp.slice.openStart > 0
    /\ sliceSize(inp.slice) > inp.to - inp.from
    /\ posDepth(resolve(inp.doc, inp.from)) > 1

\* C2: replace throws a ReplaceError when the slice's openStart exceeds the
\* depth of from, and when depth(from) - openStart differs from
\* depth(to) - openEnd.
C2_OpenDepthFaults ==
    replaced =>
        LET fromDepth == posDepth(resolve(inp.doc, inp.from))
            toDepth   == posDepth(resolve(inp.doc, inp.to))
        IN  (\/ inp.slice.openStart > fromDepth
             \/ fromDepth - inp.slice.openStart /= toDepth - inp.slice.openEnd)
                => out.doc.type = "!ReplaceError"

\* C2 is exercised: the slice was not opened deeper than from, the two
\* depth differences disagreed, and replace threw.
C2_Witness ==
    /\ replaced
    /\ inp.slice.openStart <= posDepth(resolve(inp.doc, inp.from))
    /\ posDepth(resolve(inp.doc, inp.from)) - inp.slice.openStart
          /= posDepth(resolve(inp.doc, inp.to)) - inp.slice.openEnd
    /\ out.doc.type = "!ReplaceError"

\* C3: for a valid document and a slice whose closed nodes are valid, a
\* document that replace returns has, at every depth, content its node type
\* accepts; content no type accepts makes replace throw instead.
C3_ResultValid ==
    (/\ returnedDoc
     /\ ValidDeep(inp.doc)
     /\ ClosedValid(inp.slice.content, inp.slice.openStart, inp.slice.openEnd))
        => ValidDeep(out.doc)

\* C3 is exercised: a closed slice was put between the children of a
\* textblock, replace closed that textblock over the new content and
\* returned a different document.
C3_Witness ==
    /\ returnedDoc
    /\ Len(inp.slice.content.content) > 0
    /\ inp.slice.openStart = 0
    /\ inp.slice.openEnd = 0
    /\ posDepth(resolve(inp.doc, inp.from)) = 1
    /\ posNode(resolve(inp.doc, inp.from), 1).type = "paragraph"
    /\ out.doc /= inp.doc

(***************************************************************************)
(* Mark steps and their inverses (checked under SpecStep).                 *)
(***************************************************************************)
\* C4: when a step applies successfully to a document, applying its inverse
\* to the result succeeds and gives back a document equal to the original.
C4_InvertRoundTrip ==
    (out.op = "markStep" /\ out.res.kind = "ok")
        => (out.back.kind = "ok" /\ nodeEq(out.back.doc, inp.doc))

(***************************************************************************)
(* Fragments (checked under SpecFragment).                                 *)
(***************************************************************************)
\* C5: for fragments a and b, cutting a.append(b) at a.size gives back a
\* (the part before) and b (the part after).
C5_AppendCutRoundTrip ==
    out.op = "append"
        => (fragmentEq(out.head, inp.a) /\ fragmentEq(out.tail, inp.b))

\* C5 is exercised: append merged the last text of a with the first text of
\* b, so the cuts had to split a text node again.
C5_Witness ==
    /\ out.op = "append"
    /\ inp.a.size > 0
    /\ inp.b.size > 0
    /\ Len(out.r.content) < Len(inp.a.content) + Len(inp.b.content)
    /\ Len(inp.a.content) > 1

\* C6: the fragments that append, cut and fromArray produce have no two
\* adjacent text children with the same marks.
C6_NoAdjacentSameMarkText ==
    out.op \in {"append", "cut", "fromArray"}
        => (Normalized(out.r) /\ Normalized(out.head) /\ Normalized(out.tail))

\* C6 is exercised: fromArray was given three text nodes in a row with the
\* same marks.
C6_Witness ==
    /\ out.op = "fromArray"
    /\ \E i \in 1..(Len(inp.arr) - 2) :
           /\ isText(inp.arr[i]) /\ isText(inp.arr[i + 1]) /\ isText(inp.arr[i + 2])
           /\ inp.arr[i].marks = inp.arr[i + 1].marks
           /\ inp.arr[i + 1].marks = inp.arr[i + 2].marks
    /\ Len(out.r.content) < Len(inp.arr) - 1

(***************************************************************************)
(* Transform (checked under Spec).                                         *)
(***************************************************************************)
called == ret.call \in {"step", "maybeStep"}

\* C7: a step whose apply fails is not recorded: doc, steps, docs and the
\* maps are as before the call; maybeStep returns the failed result and step
\* throws a TransformError.
C7_FailedStepNotRecorded ==
    (called /\ ret.result.kind = "fail")
        => /\ tr = ret.pre
           /\ ret.call = "maybeStep" => ret.outcome = "returned"
           /\ ret.call = "step" =>
                  (ret.outcome = "threw" /\ ret.error.type = "!TransformError")

\* C8: steps, docs and maps have one entry per successful application, in
\* call order: docs[i] is the document steps[i] was applied to, the next
\* document (doc for the last) is the result, maps[i] is steps[i].getMap().
C8_RecordedHistory ==
    /\ Len(steps) = Len(hist.ok)
    /\ Len(docs) = Len(hist.ok)
    /\ Len(maps) = Len(hist.ok)
    /\ \A i \in 1..Len(hist.ok) :
           /\ steps[i] = hist.ok[i].step
           /\ docs[i] = hist.ok[i].before
           /\ (IF i < Len(docs) THEN docs[i + 1] ELSE doc) = hist.ok[i].after
           /\ maps[i] = getMap(steps[i])

\* C9: before is the document the transform was constructed with, whatever
\* steps have been applied or have failed since.
C9_BeforeIsStartDoc == before(tr) = hist.doc0

\* C9 is exercised: two steps are recorded, the current document differs
\* from the first, and the last call threw.
C9_Witness ==
    /\ Len(steps) >= 2
    /\ ~isNull(doc)
    /\ doc /= hist.doc0
    /\ docs[2] /= hist.doc0
    /\ ret.outcome = "threw"

\* C10: docChanged is true exactly when at least one step has been applied
\* successfully.
C10_DocChanged == docChanged(tr) <=> Len(hist.ok) > 0

\* Mapping a position through the maps of the steps s1..sn one after the
\* other.
RECURSIVE throughSteps(_, _, _)
throughSteps(ss, pos, assoc) ==
    IF ss = <<>> THEN pos
    ELSE throughSteps(Tail(ss), stepMapMap(getMap(Head(ss)), pos, assoc), assoc)

\* C11: for every position of the starting document, the transform's
\* mapping maps it to the position that the maps of the recorded steps, taken
\* one by one in order, map it to.
C11_MappingComposition ==
    \A pos \in 0..hist.doc0.content.size : \A assoc \in {-1, 1} :
        mappingMap(maps, pos, assoc) = throughSteps(steps, pos, assoc)

\* C11 is exercised: two replace steps are recorded whose maps do not
\* commute on some position of the starting document.
C11_Witness ==
    /\ Len(steps) >= 2
    /\ steps[1].kind = "replace"
    /\ steps[2].kind = "replace"
    /\ \E pos \in 0..hist.doc0.content.size :
           mappingMap(maps, pos, 1) /= mappingMap(<<maps[2], maps[1]>> \o SubSeq(maps, 3, Len(maps)), pos, 1)

(***************************************************************************)
(* Specification SpecMap: AddMarkStep.map and RemoveMarkStep.map           *)
(* (src/unnamed/part_004).                                                 *)
(***************************************************************************)
\* What map returns for a step that maps to nothing.
NullStep ==
    [kind |-> "null", from |-> 0, to |-> 0, mark |-> "", slice |-> EmptySlice,
     reason |-> <<>>]

\* map that keeps a step whose mapped range is empty (mutant).
map_keepempty(st, mapping) ==
    LET from == mappingMapResult(mapping, st.from, 1)
        to   == mappingMapResult(mapping, st.to, -1)
    IN  IF (from.deleted /\ to.deleted) \/ from.pos > to.pos THEN NullStep
        ELSE [st EXCEPT !.from = from.pos, !.to = to.pos]

\* AddMarkStep.map(mapping) / RemoveMarkStep.map(mapping)
map(st, mapping) ==
    LET from == mappingMapResult(mapping, st.from, 1)
        to   == mappingMapResult(mapping, st.to, -1)
    IN  IF (from.deleted /\ to.deleted) \/ from.pos >= to.pos THEN NullStep
        ELSE IF st.kind = "addMark" THEN AddMarkStep(from.pos, to.pos, st.mark)
        ELSE RemoveMarkStep(from.pos, to.pos, st.mark)

MaxMaps == 2        \* step maps in a mapping

\* Step maps of one range: replace oldSize positions at start by newSize.
RangeMaps ==
    {<<>>} \cup {<<start, oldSize, newSize>> :
                    start \in 0..3, oldSize \in 0..2, newSize \in 0..1}

Mappings == SeqsUpTo(RangeMaps, MaxMaps)

InitMap ==
    /\ NoTransform
    /\ \E r \in Ranges(4) : \E mapping \in Mappings :
       \E st \in {AddMarkStep(r[1], r[2], "strong"), RemoveMarkStep(r[1], r[2], "code")} :
           inp = [op |-> "map", step |-> st, mapping |-> mapping]
    /\ out = Idle

DoMap ==
    /\ inp.op = "map"
    /\ out = Idle
    /\ out' = [op |-> "map", r |-> map(inp.step, inp.mapping)]
    /\ UNCHANGED inp
    /\ TransformUnchanged

NextMap == DoMap

SpecMap == InitMap /\ [][NextMap]_vars

mappedFrom == mappingMapResult(inp.mapping, inp.step.from, 1)
mappedTo == mappingMapResult(inp.mapping, inp.step.to, -1)

\* C12: map sends from through the mapping with assoc 1 and to with assoc
\* -1; it returns null exactly when both ends are reported deleted or the
\* mapped from is not below the mapped to, and otherwise a step of the same
\* kind and mark over the mapped range, whose from is below its to.
C12_MarkStepMap ==
    out.op = "map" =>
        /\ (out.r = NullStep)
              <=> ((mappedFrom.deleted /\ mappedTo.deleted) \/ mappedFrom.pos >= mappedTo.pos)
        /\ out.r /= NullStep =>
              /\ out.r.kind = inp.step.kind
              /\ out.r.mark = inp.step.mark
              /\ out.r.from = mappedFrom.pos
              /\ out.r.to = mappedTo.pos
              /\ out.r.from < out.r.to

\* C12 is exercised: the mapping deleted both ends of the range although
\* the mapped from is still below the mapped to, and map returned null.
C12_Witness ==
    /\ out.op = "map"
    /\ out.r = NullStep
    /\ mappedFrom.deleted
    /\ mappedTo.deleted
    /\ mappedFrom.pos < mappedTo.pos

(***************************************************************************)
(* JSON.  A JSON value is a record with one field that names its kind:     *)
(* [null], [undefined] (an absent property), [bool], [num], [str] (a       *)
(* string, as a tuple of characters), [name] (a string that holds an       *)
(* identifier), [arr] (a tuple of values) and [obj] (a function from       *)
(* property names to values).                                              *)
(***************************************************************************)
JNull == [null |-> TRUE]
JUndefined == [undefined |-> TRUE]
JBool(b) == [bool |-> b]
JNum(n) == [num |-> n]
JStr(chars) == [str |-> chars]
JName(id) == [name |-> id]
JArr(a) == [arr |-> a]
JObj(r) == [obj |-> r]

NoProps == [x \in {} |-> JUndefined]

isNum(j) == "num" \in DOMAIN j           \* typeof j == "number"
isArray(j) == "arr" \in DOMAIN j         \* Array.isArray(j)
isObj(j) == "obj" \in DOMAIN j

\* !j
falsy(j) ==
    \/ "null" \in DOMAIN j
    \/ "undefined" \in DOMAIN j
    \/ ("bool" \in DOMAIN j /\ ~j.bool)
    \/ ("num" \in DOMAIN j /\ j.num = 0)
    \/ ("str" \in DOMAIN j /\ j.str = <<>>)

\* j[field]: undefined for a property the object lacks; reading a property
\* of a string, number or boolean gives undefined as well.
prop(j, field) ==
    IF isObj(j) /\ field \in DOMAIN j.obj THEN j.obj[field] ELSE JUndefined

\* j || 0
orZero(j) == IF falsy(j) THEN JNum(0) ELSE j

\* What a fromJSON call produced: the value it returned or the error it
\* threw.
Returned(v) == [ok |-> TRUE, value |-> v, error |-> NullNode]
Threw(e) == [ok |-> FALSE, value |-> NullNode, error |-> e]

\* Mark arrays are ordered by rank.
MarkRank == <<"strong", "code">>
markArray(set) == SelectSeq(MarkRank, LAMBDA m : m \in set)

\* Mark.toJSON() / Schema.markFromJSON(json)
markToJSON(m) == JObj("type" :> JName(m))

markFromJSON(j) ==
    IF falsy(j) THEN Threw(RangeError(<<"Invalid input for Mark.fromJSON">>))
    ELSE IF "name" \in DOMAIN prop(j, "type") /\ prop(j, "type").name \in Marks
    THEN Returned(prop(j, "type").name)
    ELSE Threw(RangeError(<<"There is no mark type in this schema">>))

\* Node.toJSON() and Fragment.toJSON()
RECURSIVE nodeToJSON(_)
RECURSIVE fragmentToJSON(_)
nodeToJSON(n) ==
    JObj(("type" :> JName(n.type))
         @@ (IF n.content.size > 0 THEN "content" :> fragmentToJSON(n.content) ELSE NoProps)
         @@ (IF n.marks /= {}
             THEN "marks" :> JArr([i \in 1..Len(markArray(n.marks)) |->
                                      markToJSON(markArray(n.marks)[i])])
             ELSE NoProps)
         @@ (IF isText(n) THEN "text" :> JStr(n.text) ELSE NoProps))

fragmentToJSON(f) ==
    IF Len(f.content) > 0
    THEN JArr([i \in 1..Len(f.content) |-> nodeToJSON(f.content[i])])
    ELSE JNull

\* Schema.nodeFromJSON(json) and Fragment.fromJSON(schema, value)
RECURSIVE nodeFromJSON(_)
RECURSIVE fragmentFromJSON(_)
marksFromJSON(j) ==
    IF falsy(j) THEN Returned({})
    ELSE IF ~isArray(j) THEN Threw(RangeError(<<"Invalid mark data for Node.fromJSON">>))
    ELSE IF \E i \in 1..Len(j.arr) : ~markFromJSON(j.arr[i]).ok
    THEN markFromJSON(j.arr[CHOOSE i \in 1..Len(j.arr) : ~markFromJSON(j.arr[i]).ok])
    ELSE Returned({markFromJSON(j.arr[i]).value : i \in 1..Len(j.arr)})

nodeFromJSON(j) ==
    IF falsy(j) THEN Threw(RangeError(<<"Invalid input for Node.fromJSON">>))
    ELSE LET marks   == marksFromJSON(prop(j, "marks"))
             type    == prop(j, "type")
             content == fragmentFromJSON(prop(j, "content"))
         IN  IF ~marks.ok THEN marks
             ELSE IF type = JName("text")
             THEN IF "str" \in DOMAIN prop(j, "text")
                  THEN Returned(Text(prop(j, "text").str, marks.value))
                  ELSE Threw(RangeError(<<"Invalid text node in JSON">>))
             ELSE IF ~content.ok THEN content
             ELSE IF "name" \in DOMAIN type /\ type.name \in BlockTypes \cup {"doc"}
             THEN Returned([type |-> type.name, text |-> <<>>, marks |-> marks.value,
                            content |-> content.value])
             ELSE Threw(RangeError(<<"Unknown node type">>))

fragmentFromJSON(value) ==
    IF falsy(value) THEN Returned(EmptyFragment)
    ELSE IF ~isArray(value)
    THEN Threw(RangeError(<<"Invalid input for Fragment.fromJSON">>))
    ELSE IF \E i \in 1..Len(value.arr) : ~nodeFromJSON(value.arr[i]).ok
    THEN nodeFromJSON(value.arr[CHOOSE i \in 1..Len(value.arr) :
                                   /\ ~nodeFromJSON(value.arr[i]).ok
                                   /\ \A k \in 1..(i - 1) : nodeFromJSON(value.arr[k]).ok])
    ELSE Returned(Fragment([i \in 1..Len(value.arr) |-> nodeFromJSON(value.arr[i]).value]))

\* Slice.toJSON()
sliceToJSON(slice) ==
    IF slice.content.size = 0 THEN JNull
    ELSE JObj(("content" :> fragmentToJSON(slice.content))
              @@ (IF slice.openStart > 0 THEN "openStart" :> JNum(slice.openStart) ELSE NoProps)
              @@ (IF slice.openEnd > 0 THEN "openEnd" :> JNum(slice.openEnd) ELSE NoProps))

\* Slice.fromJSON that reads openStart for both open depths (mutant).
sliceFromJSON_oneDepth(json) ==
    IF falsy(json) THEN Returned(EmptySlice)
    ELSE Returned(Slice(fragmentFromJSON(prop(json, "content")).value,
                        orZero(prop(json, "openStart")).num,
                        orZero(prop(json, "openStart")).num))

\* Slice.fromJSON(schema, json)
sliceFromJSON(json) ==
    IF falsy(json) THEN Returned(EmptySlice)
    ELSE LET openStart == orZero(prop(json, "openStart"))
             openEnd   == orZero(prop(json, "openEnd"))
             content   == fragmentFromJSON(prop(json, "content"))
         IN  IF ~isNum(openStart) \/ ~isNum(openEnd)
             THEN Threw(RangeError(<<"Invalid input for Slice.fromJSON">>))
             ELSE IF ~content.ok THEN content
             ELSE Returned(Slice(content.value, orZero(prop(json, "openStart")).num,
                                 orZero(prop(json, "openEnd")).num))

\* AddMarkStep.toJSON() / RemoveMarkStep.toJSON()
stepToJSON(st) ==
    JObj([stepType |-> JName(st.kind), mark |-> markToJSON(st.mark),
          from |-> JNum(st.from), to |-> JNum(st.to)])

\* AddMarkStep.fromJSON(schema, json) / RemoveMarkStep.fromJSON(schema, json),
\* kind naming the class whose method is called.
stepFromJSON(kind, json) ==
    IF "null" \in DOMAIN json \/ "undefined" \in DOMAIN json
    THEN Threw(TypeError(<<"Cannot read properties of null">>))
    ELSE IF ~isNum(prop(json, "from")) \/ ~isNum(prop(json, "to"))
    THEN Threw(RangeError(<<"Invalid input for MarkStep.fromJSON">>))
    ELSE LET m == markFromJSON(prop(json, "mark"))
         IN  IF ~m.ok THEN m
             ELSE IF kind = "addMark"
             THEN Returned(AddMarkStep(prop(json, "from").num, prop(json, "to").num, m.value))
             ELSE Returned(RemoveMarkStep(prop(json, "from").num, prop(json, "to").num, m.value))

\* Slice.eq(other)
sliceEq(a, b) ==
    fragmentEq(a.content, b.content) /\ a.openStart = b.openStart /\ a.openEnd = b.openEnd

(***************************************************************************)
(* Specification SpecJson: toJSON followed by fromJSON, and fromJSON on    *)
(* JSON values with fields of the wrong kind.                              *)
(***************************************************************************)
\* What a numeric field may hold: absent (undefined), a number, or not a
\* number.
NotNumbers == {JUndefined, JNull, JBool(FALSE), JBool(TRUE), JStr(<<>>), JStr(<<"1">>)}
FieldValues == NotNumbers \cup {JNum(0), JNum(1), JNum(2)}

\* An object with the properties given, the undefined ones left out.
object(props) == JObj([f \in {g \in DOMAIN props : props[g] /= JUndefined} |-> props[f]])

FragmentValues ==
    {JNull, JUndefined, JNum(0), JNum(5), JBool(TRUE), JStr(<<>>), JStr(<<"x">>),
     JObj(NoProps), JArr(<<>>), JArr(<<JNull>>), JArr(<<JNum(1)>>)}
        \cup {fragmentToJSON(f) : f \in Fragments}

JsonInput(op, kind, value) == [op |-> op, kind |-> kind, value |-> value]

InitJson ==
    /\ NoTransform
    /\ \/ \E f \in Fragments : inp = JsonInput("roundTrip", "fragment", f)
       \/ \E sl \in Slices : inp = JsonInput("roundTrip", "slice", sl)
       \/ \E r \in Ranges(4) : \E m \in Marks :
          \E st \in {AddMarkStep(r[1], r[2], m), RemoveMarkStep(r[1], r[2], m)} :
              inp = JsonInput("roundTrip", st.kind, st)
       \/ \E v \in FragmentValues : inp = JsonInput("fromJSON", "fragment", v)
       \/ \E os \in FieldValues : \E oe \in FieldValues :
              inp = JsonInput("fromJSON", "slice",
                              object([content |-> fragmentToJSON(Fragment(<<Para(<<Tx>>)>>)),
                                      openStart |-> os, openEnd |-> oe]))
       \/ \E from \in FieldValues : \E to \in FieldValues :
          \E kind \in {"addMark", "removeMark"} :
              inp = JsonInput("fromJSON", kind,
                              object([stepType |-> JName(kind), mark |-> markToJSON("strong"),
                                      from |-> from, to |-> to]))
    /\ out = Idle

toJSON(kind, v) ==
    CASE kind = "fragment" -> fragmentToJSON(v)
      [] kind = "slice" -> sliceToJSON(v)
      [] OTHER -> stepToJSON(v)

fromJSON(kind, json) ==
    CASE kind = "fragment" -> fragmentFromJSON(json)
      [] kind = "slice" -> sliceFromJSON(json)
      [] OTHER -> stepFromJSON(kind, json)

DoRoundTrip ==
    /\ inp.op = "roundTrip"
    /\ out = Idle
    /\ \E json \in {toJSON(inp.kind, inp.value)} :
           out' = [op |-> "roundTrip", json |-> json, r |-> fromJSON(inp.kind, json)]
    /\ UNCHANGED inp
    /\ TransformUnchanged

DoFromJSON ==
    /\ inp.op = "fromJSON"
    /\ out = Idle
    /\ out' = [op |-> "fromJSON", json |-> inp.value, r |-> fromJSON(inp.kind, inp.value)]
    /\ UNCHANGED inp
    /\ TransformUnchanged

NextJson == DoRoundTrip \/ DoFromJSON

SpecJson == InitJson /\ [][NextJson]_vars

\* C13: fromJSON of the toJSON of a fragment, a slice or a mark step returns
\* a value equal to the original: same content, same open depths, same step
\* kind, range and mark.
C13_JsonRoundTrip ==
    out.op = "roundTrip" =>
        /\ out.r.ok
        /\ CASE inp.kind = "fragment" -> fragmentEq(out.r.value, inp.value)
             [] inp.kind = "slice" -> sliceEq(out.r.value, inp.value)
             [] OTHER -> out.r.value = inp.value

\* C13 is exercised: a slice open at the end only, whose JSON has no
\* openStart, came back from fromJSON.
C13_Witness ==
    /\ out.op = "roundTrip"
    /\ inp.kind = "slice"
    /\ inp.value.openStart = 0
    /\ inp.value.openEnd > 0
    /\ "openStart" \notin DOMAIN out.json.obj
    /\ out.r.ok

threwRangeError == ~out.r.ok /\ out.r.error.type = "!RangeError"

\* C14: fromJSON throws a RangeError and builds nothing when a numeric
\* field is of the wrong kind: from or to of a mark step absent or not a
\* number, openStart or openEnd of a slice present and not a number, a
\* truthy fragment value that is not an array.
C14_FromJsonFaults ==
    out.op = "fromJSON" =>
        /\ (/\ inp.kind \in {"addMark", "removeMark"}
            /\ (~isNum(prop(inp.value, "from")) \/ ~isNum(prop(inp.value, "to"))))
              => threwRangeError
        /\ (/\ inp.kind = "slice"
            /\ \E f \in {"openStart", "openEnd"} :
                   f \in DOMAIN inp.value.obj /\ ~isNum(inp.value.obj[f]))
              => threwRangeError
        /\ (inp.kind = "fragment" /\ ~falsy(inp.value) /\ ~isArray(inp.value))
              => threwRangeError

(***************************************************************************)
(* Specification SpecMaxOpen: Slice.maxOpen (src/model/replace.ts).        *)
(***************************************************************************)
\* The nested single-child chain paragraph(paragraph("x")).
NestedParagraph == Para(<<Para(<<Tx>>)>>)

ChainNodes ==
    { Tx,
      Para(<<>>),
      Para(<<Tx>>),
      NestedParagraph,
      Quote(<<Para(<<Tx>>)>>),
      Quote(<<Quote(<<Para(<<Tx>>)>>)>>),
      Quote(<<Para(<<Ta>>), Quote(<<Para(<<Tbc>>)>>)>>) }

InitMaxOpen ==
    /\ NoTransform
    /\ \E kids \in SeqsUpTo(ChainNodes, MaxKids) : \E openIsolating \in BOOLEAN :
       \E isolating \in SUBSET {"paragraph", "blockquote"} :
           inp = [op |-> "maxOpen", fragment |-> Fragment(kids),
                  openIsolating |-> openIsolating, isolating |-> isolating]
    /\ out = Idle

DoMaxOpen ==
    /\ inp.op = "maxOpen"
    /\ out = Idle
    /\ out' = [op |-> "maxOpen", r |-> maxOpen(inp.fragment, inp.openIsolating, inp.isolating)]
    /\ UNCHANGED inp
    /\ TransformUnchanged

NextMaxOpen == DoMaxOpen

SpecMaxOpen == InitMaxOpen /\ [][NextMaxOpen]_vars

\* The k-th node down the first-child (last-child) chain of a fragment, the
\* fragment's own first (last) child being number 0; NullNode past its end.
RECURSIVE chainNode(_, _, _)
chainNode(f, k, first) ==
    LET n == IF first THEN firstChild(f) ELSE lastChild(f)
    IN  IF k = 0 \/ isNull(n) THEN n ELSE chainNode(n.content, k - 1, first)

\* A node that maxOpen may open.
mayOpen(n) ==
    ~isNull(n) /\ ~isLeaf(n) /\ (inp.openIsolating \/ n.type \notin inp.isolating)

\* The number of nodes at the top of the chain that may all be opened.
legalOpen(first) ==
    Cardinality({k \in 0..3 : \A j \in 0..k : mayOpen(chainNode(inp.fragment, j, first))})

\* C15 as stated: on the fragment paragraph(paragraph("x")) maxOpen returns
\* openStart = openEnd = 1 when paragraphs are not isolating, and 0 when they
\* are isolating and openIsolating is false.
C15_NestedChainAsStated ==
    (out.op = "maxOpen" /\ inp.fragment = Fragment(<<NestedParagraph>>) /\ ~inp.openIsolating)
        => IF "paragraph" \in inp.isolating
           THEN out.r.openStart = 0 /\ out.r.openEnd = 0
           ELSE out.r.openStart = 1 /\ out.r.openEnd = 1

\* C15 amended: maxOpen returns on each side the number of nodes at the top
\* of the first-child (last-child) chain that are no leaves and, unless
\* openIsolating, not isolating; on paragraph(paragraph("x")) that is 2 on
\* both sides when paragraphs are not isolating or openIsolating is true, and
\* 0 when they are isolating and openIsolating is false.
C15_MaxOpen ==
    out.op = "maxOpen" =>
        /\ out.r.content = inp.fragment
        /\ out.r.openStart = legalOpen(TRUE)
        /\ out.r.openEnd = legalOpen(FALSE)
        /\ inp.fragment = Fragment(<<NestedParagraph>>) =>
               IF "paragraph" \in inp.isolating /\ ~inp.openIsolating
               THEN out.r.openStart = 0 /\ out.r.openEnd = 0
               ELSE out.r.openStart = 2 /\ out.r.openEnd = 2

\* C15 is exercised: with blockquotes isolating, paragraphs not, and
\* openIsolating false, the two sides of a fragment came out with different
\* open depths, one of them stopped by an isolating node below the top.
C15_Witness ==
    /\ out.op = "maxOpen"
    /\ ~inp.openIsolating
    /\ inp.isolating = {"blockquote"}
    /\ out.r.openStart = 1
    /\ out.r.openEnd = 0
    /\ Len(inp.fragment.content) = 2

(***************************************************************************)
(* Specification SpecPure: Node.replace and the mark steps' apply on       *)
(* inputs whose child arrays carry their identity.  Every non-empty array  *)
(* of the document and of the slice gets a number of its own before the    *)
(* call; the arrays an operation allocates have the number 0.              *)
(***************************************************************************)
RECURSIVE labelFragment(_, _)
labelFragment(f, id) ==
    IF Len(f.content) = 0 THEN f
    ELSE [content |-> [i \in 1..Len(f.content) |->
                          copy(f.content[i],
                               labelFragment(f.content[i].content, id * 8 + i))],
          size |-> f.size,
          id |-> id]

labelDoc(d) == copy(d, labelFragment(d.content, 1))
labelSlice(sl) == Slice(labelFragment(sl.content, 2), sl.openStart, sl.openEnd)

\* The arrays below f that existed before the call.
RECURSIVE existingArrays(_)
existingArrays(f) ==
    (IF f.id = 0 THEN {} ELSE {f})
        \cup UNION {existingArrays(f.content[i].content) : i \in 1..Len(f.content)}

InitPure ==
    /\ NoTransform
    /\ \E d \in Docs :
          \/ \E r \in Ranges(d.content.size) : \E sl \in Slices :
                inp = [op |-> "replace", doc |-> labelDoc(d), from |-> r[1], to |-> r[2],
                       slice |-> labelSlice(sl), step |-> NullStep]
          \/ \E st \in MarkSteps(d) :
                inp = [op |-> "apply", doc |-> labelDoc(d), from |-> st.from, to |-> st.to,
                       slice |-> EmptySlice, step |-> st]
    /\ out = Idle

DoPureReplace ==
    /\ inp.op = "replace"
    /\ out = Idle
    /\ \E r \in {nodeReplace(inp.doc, inp.from, inp.to, inp.slice)} :
           out' = [op |-> "pure", threw |-> isThrown(r), doc |-> r]
    /\ UNCHANGED inp
    /\ TransformUnchanged

DoPureApply ==
    /\ inp.op = "apply"
    /\ out = Idle
    /\ \E res \in {apply(inp.step, inp.doc)} :
           out' = [op |-> "pure", threw |-> res.kind /= "ok", doc |-> res.doc]
    /\ UNCHANGED inp
    /\ TransformUnchanged

NextPure == DoPureReplace \/ DoPureApply

SpecPure == InitPure /\ [][NextPure]_vars

givenArrays == existingArrays(inp.doc.content) \cup existingArrays(inp.slice.content)

flatReplace ==
    /\ replaced
    /\ inRange(inp.doc, inp.from)
    /\ inRange(inp.doc, inp.to)
    /\ inp.slice.openStart = 0
    /\ inp.slice.openEnd = 0
    /\ inp.slice.content.size > 0
    /\ LET from == resolve(inp.doc, inp.from)
           to   == resolve(inp.doc, inp.to)
       IN  /\ posDepth(from) = posDepth(to)
           /\ \A d \in 0..(posDepth(from) - 1) : posIndex(from, d) = posIndex(to, d)

closeFault == flatReplace /\ out.doc.type = "!ReplaceError"

\* C17: when the content assembled for a node does not fit the node type's
\* content model, the ReplaceError that reaches the caller carries the
\* message "Invalid content for node <type name>".
C17_CloseFaultNamesType ==
    closeFault =>
        out.doc.text
            = <<"Invalid content for node", posParent(resolve(inp.doc, inp.from)).type>>

\* The depth at which replace stops descending and starts to assemble: the
\* first depth where the two positions sit in different children, at most
\* the depth the slice's open start leaves of $from.
replaceDepth(from, to, slice) ==
    LET extra == posDepth(from) - slice.openStart
    IN  CHOOSE d \in 0..extra :
            /\ d = extra \/ posIndex(from, d) /= posIndex(to, d)
            /\ \A e \in 0..(d - 1) : posIndex(from, e) = posIndex(to, e)

\* The type of the slice side that is joined at the given depth: above the
\* slice it is the copy of $from's ancestor, inside it the open node of the
\* slice's first (last) chain.
sliceSideType(from, slice, depth, first) ==
    LET extra == posDepth(from) - slice.openStart
    IN  IF depth <= extra THEN posNode(from, depth).type
        ELSE chainNode(slice.content, depth - extra - 1, first).type

\* replace was given positions and open depths it accepts, and one of the
\* joins it has to make is between node types without compatible content.
incompatibleJoin ==
    /\ replaced
    /\ inRange(inp.doc, inp.from)
    /\ inRange(inp.doc, inp.to)
    /\ LET from == resolve(inp.doc, inp.from)
           to   == resolve(inp.doc, inp.to)
           sl   == inp.slice
           top  == replaceDepth(from, to, sl)
       IN  /\ sl.openStart <= posDepth(from)
           /\ posDepth(from) - sl.openStart = posDepth(to) - sl.openEnd
           /\ IF sl.content.size = 0
              THEN \E d \in (top + 1)..posDepth(from) :
                       ~compatibleContent(posNode(to, d).type, posNode(from, d).type)
              ELSE \/ \E d \in (top + 1)..posDepth(from) :
                          ~compatibleContent(sliceSideType(from, sl, d, TRUE),
                                             posNode(from, d).type)
                   \/ \E d \in (top + 1)..posDepth(to) :
                          ~compatibleContent(posNode(to, d).type,
                                             sliceSideType(from, sl, d, FALSE))

\* C18: when one of the joins replace has to make (the two sides of a deleted
\* range, or a document side with an open side of the slice) is between node
\* types without compatible content, replace throws a ReplaceError and
\* returns no document.
C18_IncompatibleJoinFaults ==
    incompatibleJoin => out.doc.type = "!ReplaceError"

\* C18 is exercised: a deletion whose two sides are a blockquote and a
\* textblock, where nothing of the textblock would be left to put into the
\* blockquote, was refused.
C18_Witness ==
    /\ incompatibleJoin
    /\ inp.slice.content.size = 0
    /\ inp.from < inp.to
    /\ resolve(inp.doc, inp.to).parentOffset = posParent(resolve(inp.doc, inp.to)).content.size
    /\ out.doc.type = "!ReplaceError"

(***************************************************************************)
(* Specification SpecCut: Fragment.cut on positions inside the fragment    *)
(* and up to one step outside it on either side.                           *)
(***************************************************************************)
CutRanges(size) == {<<f, t>> \in (-1..(size + 1)) \X (-1..(size + 1)) : f <= t}

InitCut ==
    /\ NoTransform
    /\ \E a \in Fragments : \E r \in CutRanges(a.size) :
           inp = FragmentInput("cut", a, EmptyFragment, <<>>, r[1], r[2])
    /\ out = Idle

NextCut == DoCut

SpecCut == InitCut /\ [][NextCut]_vars

cutDone == out.op = "cut"
cutInBounds == 0 <= inp.from /\ inp.from <= inp.to /\ inp.to <= inp.a.size
cutOutOfBounds == inp.from < 0 \/ inp.to > inp.a.size
cutThrew(name) == fragmentThrew(out.r) /\ out.r.content[1].type = "!" \o name

\* C19: cut(from, to) with 0 <= from <= to <= size returns a fragment, and
\* cut with a negative from or a to greater than size throws a RangeError: it
\* neither returns a fragment nor throws another kind of error.
C19_CutFaults ==
    cutDone =>
        /\ cutInBounds => ~fragmentThrew(out.r)
        /\ cutOutOfBounds => cutThrew("RangeError")

(***************************************************************************)
(* Specification SpecSize: every operation that builds a Fragment, on      *)
(* fragments whose cached size is right.                                   *)
(***************************************************************************)
Indices(f) == {<<i, j>> \in (0..Len(f.content)) \X (0..Len(f.content)) : i <= j}

InitSize ==
    /\ NoTransform
    /\ \/ \E a \in Fragments : \E b \in Fragments :
              inp = FragmentInput("append", a, b, <<>>, 0, 0)
       \/ \E a \in Fragments : \E r \in Ranges(a.size) :
              inp = FragmentInput("cut", a, EmptyFragment, <<>>, r[1], r[2])
       \/ \E arr \in Arrays : \E op \in {"fromArray", "new"} :
              inp = FragmentInput(op, EmptyFragment, EmptyFragment, arr, 0, 0)
       \/ \E a \in Fragments : \E r \in Indices(a) :
              inp = FragmentInput("cutByIndex", a, EmptyFragment, <<>>, r[1], r[2])
       \/ \E a \in Fragments : \E i \in 0..(Len(a.content) - 1) : \E n \in FragNodes :
              inp = FragmentInput("replaceChild", a, EmptyFragment, <<n>>, i, i)
       \/ \E a \in Fragments : \E n \in FragNodes : \E op \in {"addToStart", "addToEnd"} :
              inp = FragmentInput(op, a, EmptyFragment, <<n>>, 0, 0)
       \/ \E n \in FragNodes :
              inp = FragmentInput("from", EmptyFragment, EmptyFragment, <<n>>, 0, 0)
    /\ out = Idle

Built(op, r) ==
    /\ inp.op = op
    /\ out = Idle
    /\ out' = [op |-> op, r |-> r, head |-> EmptyFragment, tail |-> EmptyFragment]
    /\ UNCHANGED inp
    /\ TransformUnchanged

DoNew == inp.op = "new" /\ Built("new", Fragment(inp.arr))

DoCutByIndex ==
    inp.op = "cutByIndex" /\ Built("cutByIndex", cutByIndex(inp.a, inp.from, inp.to))

DoReplaceChild ==
    inp.op = "replaceChild" /\ Built("replaceChild", replaceChild(inp.a, inp.from, inp.arr[1]))

DoAddToStart == inp.op = "addToStart" /\ Built("addToStart", addToStart(inp.a, inp.arr[1]))

DoAddToEnd == inp.op = "addToEnd" /\ Built("addToEnd", addToEnd(inp.a, inp.arr[1]))

DoFrom == inp.op = "from" /\ Built("from", fragmentFromNode(inp.arr[1]))

NextSize ==
    \/ DoNew
    \/ DoAppend
    \/ DoCut
    \/ DoCutByIndex
    \/ DoReplaceChild
    \/ DoAddToStart
    \/ DoAddToEnd
    \/ DoFromArray
    \/ DoFrom

SpecSize == InitSize /\ [][NextSize]_vars

\* The cached size of f, and of every fragment below it, is the sum of the
\* children's node sizes.
RECURSIVE sizeCached(_)
sizeCached(f) ==
    /\ f.size = SumNodeSize(f.content)
    /\ \A i \in 1..Len(f.content) : sizeCached(f.content[i].content)

\* C20: the cached size of every fragment built by the constructor, append,
\* cut, cutByIndex, replaceChild, addToStart, addToEnd, fromArray and from is
\* the sum of its children's node sizes.
C20_CachedSize ==
    out /= Idle => (sizeCached(out.r) /\ sizeCached(out.head) /\ sizeCached(out.tail))

\* C20 is exercised: replaceChild put a node of another size in the place of a
\* child, next to a child it kept.
C20_Witness ==
    /\ out.op = "replaceChild"
    /\ Len(inp.a.content) > 1
    /\ nodeSize(inp.arr[1]) /= nodeSize(inp.a.content[inp.from + 1])
    /\ out.r.size = inp.a.size + nodeSize(inp.arr[1]) - nodeSize(inp.a.content[inp.from + 1])

(***************************************************************************)
(* Specification SpecMark: a mark step applied to a document of Docs or to *)
(* doc(paragraph("abc")), then its inverse applied to the result.          *)
(***************************************************************************)
Tabc == Text(<<"a", "b", "c">>, {})

MarkDocs == Docs \cup {Doc(<<Para(<<Tabc>>)>>)}

InitMark ==
    /\ NoTransform
    /\ \E d \in MarkDocs : \E st \in MarkSteps(d) :
           inp = [op |-> "markStep", doc |-> d, step |-> st]
    /\ out = Idle

NextMark == DoApplyAndInvert

SpecMark == InitMark /\ [][NextMark]_vars

\* The characters of the text nodes below f: each with its document
\* position, its marks and the type of the node it sits in.
RECURSIVE charsOf(_, _, _)
RECURSIVE charsFrom(_, _, _, _)
charsFrom(f, i, start, parent) ==
    IF i > Len(f.content) THEN {}
    ELSE LET n == f.content[i]
         IN  (IF isText(n)
              THEN {[pos |-> start + k - 1, ch |-> n.text[k], marks |-> n.marks,
                     parent |-> parent] : k \in 1..Len(n.text)}
              ELSE charsOf(n.content, start + 1, n.type))
                 \cup charsFrom(f, i + 1, start + nodeSize(n), parent)

charsOf(f, start, parent) == charsFrom(f, 1, start, parent)

docChars(d) == charsOf(d.content, 0, d.type)

addApplied == out.op = "markStep" /\ inp.step.kind = "addMark" /\ out.res.kind = "ok"

marked(c) ==
    IF inp.step.from <= c.pos /\ c.pos < inp.step.to /\ allowsMarkType(c.parent, inp.step.mark)
    THEN [c EXCEPT !.marks = addToSet(inp.step.mark, c.marks)]
    ELSE c

\* C21: where AddMarkStep(from, to, mark).apply succeeds, every character
\* inside [from, to) whose parent's type permits the mark has the mark added
\* to its set, every other character keeps its marks, and the text, the
\* positions, the document size and the text nodes' adjacent-merge form are
\* as before; on doc(paragraph("abc")) with range 1..4 and strong the result
\* is doc(paragraph(strong("abc"))).
C21_AddMarkApply ==
    addApplied =>
        /\ docChars(out.res.doc) = {marked(c) : c \in docChars(inp.doc)}
        /\ out.res.doc.content.size = inp.doc.content.size
        /\ out.res.doc.type = inp.doc.type
        /\ Normalized(out.res.doc.content)
        /\ (inp.doc = Doc(<<Para(<<Tabc>>)>>) /\ inp.step = AddMarkStep(1, 4, "strong"))
               => out.res.doc = Doc(<<Para(<<Text(<<"a", "b", "c">>, {"strong"})>>)>>)

\* C21 is exercised: an AddMarkStep over a range that holds a character whose
\* parent permits the mark and gets it, and a character in a code block,
\* which does not permit it.
C21_Witness ==
    /\ addApplied
    /\ \E c \in docChars(inp.doc) : marked(c) /= c
    /\ \E c \in docChars(inp.doc) :
           /\ inp.step.from <= c.pos /\ c.pos < inp.step.to
           /\ ~allowsMarkType(c.parent, inp.step.mark)

(***************************************************************************)
(* RopeSequence (src/rope-sequence/index.ts).  A rope is a Leaf over an    *)
(* array of values or an Append of two ropes; an operand may also be a     *)
(* plain array.  Indices are 0-based as in the code; arrays are 1-based    *)
(* sequences.                                                              *)
(***************************************************************************)
GOOD_LEAF_SIZE == 200

\* new Leaf(values)
RopeLeaf(values) == [kind |-> "leaf", values |-> values]

\* A plain array, and the undefined a method returns when it falls off its
\* end.
RopeArray(values) == [kind |-> "array", values |-> values]
RopeUndefined == [kind |-> "undefined"]

isRope(r) == r.kind \in {"leaf", "append"}

\* RopeSequence.empty
RopeEmpty == RopeLeaf(<<>>)

\* length: Leaf's getter, Append's field, an array's length.
ropeLength(r) == IF r.kind = "append" THEN r.length ELSE Len(r.values)

\* depth: Leaf's getter, Append's field.
ropeDepth(r) == IF r.kind = "append" THEN r.depth ELSE 0

\* new Append(left, right)
RopeAppend(left, right) ==
    [kind   |-> "append",
     left   |-> left,
     right  |-> right,
     length |-> ropeLength(left) + ropeLength(right),
     depth  |-> Max(ropeDepth(left), ropeDepth(right)) + 1]

\* RopeSequence.from(values)
ropeFrom(values) ==
    IF isRope(values) THEN values
    ELSE IF Len(values.values) /= 0 THEN RopeLeaf(values.values)
    ELSE RopeEmpty

\* flatten()
RECURSIVE flatten(_)
flatten(r) ==
    IF r.kind = "append" THEN flatten(r.left) \o flatten(r.right) ELSE r.values

\* Array.prototype.slice(start, end): a negative index counts from the end.
jsSlice(arr, start, end) ==
    LET len == Len(arr)
        k   == IF start < 0 THEN Max(len + start, 0) ELSE Min(start, len)
        fin == IF end < 0 THEN Max(len + end, 0) ELSE Min(end, len)
    IN  SubSeq(arr, k + 1, fin)

\* leafAppend(other): Leaf's and Append's.
RECURSIVE leafAppend(_, _)
leafAppend(this, other) ==
    IF this.kind = "leaf"
    THEN IF ropeLength(this) + ropeLength(other) <= GOOD_LEAF_SIZE
         THEN RopeLeaf(this.values \o flatten(other))
         ELSE RopeUndefined
    ELSE LET inner == leafAppend(this.right, other)
         IN  IF isRope(inner) THEN RopeAppend(this.left, inner) ELSE RopeUndefined

\* leafPrepend(other): Leaf's and Append's.
RECURSIVE leafPrepend(_, _)
leafPrepend(this, other) ==
    IF this.kind = "leaf"
    THEN IF ropeLength(this) + ropeLength(other) <= GOOD_LEAF_SIZE
         THEN RopeLeaf(flatten(other) \o this.values)
         ELSE RopeUndefined
    ELSE LET inner == leafPrepend(this.left, other)
         IN  IF isRope(inner) THEN RopeAppend(inner, this.right) ELSE RopeUndefined

\* Append.appendInner that puts the operand before the old right side when
\* it rebalances (mutant).
appendInner_swapped(this, other) ==
    IF this.kind = "append"
       /\ ropeDepth(this.left) >= Max(ropeDepth(this.right), ropeDepth(other)) + 1
    THEN RopeAppend(this.left, RopeAppend(other, this.right))
    ELSE RopeAppend(this, other)

\* appendInner(other): RopeSequence's (used by Leaf) and Append's.
appendInner(this, other) ==
    IF this.kind = "append"
       /\ ropeDepth(this.left) >= Max(ropeDepth(this.right), ropeDepth(other)) + 1
    THEN RopeAppend(this.left, RopeAppend(this.right, other))
    ELSE RopeAppend(this, other)

\* RopeSequence.append(other): the first operand of the || chain that is
\* not false or undefined.
ropeAppendFrom(this, other) ==
    IF ropeLength(this) = 0 THEN other
    ELSE LET viaAppend == IF ropeLength(other) < GOOD_LEAF_SIZE
                          THEN leafAppend(this, other) ELSE RopeUndefined
             viaPrepend == IF ropeLength(this) < GOOD_LEAF_SIZE
                           THEN leafPrepend(other, this) ELSE RopeUndefined
         IN  IF isRope(viaAppend) THEN viaAppend
             ELSE IF isRope(viaPrepend) THEN viaPrepend
             ELSE appendInner(this, other)

ropeAppend(this, other) ==
    IF ropeLength(other) = 0 THEN this ELSE ropeAppendFrom(this, ropeFrom(other))

\* RopeSequence.prepend(other)
ropePrepend(this, other) ==
    IF ropeLength(other) = 0 THEN this ELSE ropeAppend(ropeFrom(other), this)

\* RopeSequence.slice(from, to) and the two sliceInner.
RECURSIVE ropeSlice(_, _, _)
RECURSIVE sliceInner(_, _, _)
ropeSlice(this, from, to) ==
    IF from >= to THEN RopeEmpty
    ELSE sliceInner(this, Max(0, from), Min(ropeLength(this), to))

sliceInner(this, from, to) ==
    IF from = 0 /\ to = ropeLength(this) THEN this
    ELSE IF this.kind = "leaf" THEN RopeLeaf(jsSlice(this.values, from, to))
    ELSE LET leftLen == ropeLength(this.left)
         IN  IF to <= leftLen THEN ropeSlice(this.left, from, to)
             ELSE IF from >= leftLen THEN ropeSlice(this.right, from - leftLen, to - leftLen)
             ELSE ropeAppend(ropeSlice(this.left, from, leftLen),
                             ropeSlice(this.right, 0, to - leftLen))

\* RopeSequence.get(i) and the two getInner; 0 stands for undefined (the
\* elements are positive numbers).
RECURSIVE ropeGet(_, _)
ropeGet(this, i) ==
    IF i < 0 \/ i >= ropeLength(this) THEN 0
    ELSE IF this.kind = "leaf" THEN this.values[i + 1]
    ELSE IF i < ropeLength(this.left) THEN ropeGet(this.left, i)
    ELSE ropeGet(this.right, i - ropeLength(this.left))

\* The callback handed to forEach: it records each call and returns false
\* when it is called with the index `stop`.  A run of forEach is the calls
\* made so far and what the method returned (FALSE for `false`, TRUE for
\* undefined).
recordCall(calls, elt, index) == Append(calls, <<elt, index>>)

valueAt(values, i) == IF i + 1 \in 1..Len(values) THEN values[i + 1] ELSE 0

\* Leaf.forEachInner: for (i = from; i < to; i++) calls f(values[i],
\* start + i) and returns false as soon as f does.  The loop makes `to - from`
\* calls, or stops with the call whose index is `stop`.
leafForEach(values, stop, from, to, start, calls) ==
    LET stopped == from <= stop - start /\ stop - start < to
        n       == IF stopped THEN stop - start - from + 1 ELSE Max(to - from, 0)
    IN  [calls |-> calls \o [k \in 1..n |->
                                <<valueAt(values, from + k - 1), start + from + k - 1>>],
         go    |-> ~stopped]

\* Leaf.forEachInvertedInner: for (i = from - 1; i >= to; i--), likewise.
leafForEachInverted(values, stop, from, to, start, calls) ==
    LET stopped == to <= stop - start /\ stop - start <= from - 1
        n       == IF stopped THEN from - (stop - start) ELSE Max(from - to, 0)
    IN  [calls |-> calls \o [k \in 1..n |->
                                <<valueAt(values, from - k), start + from - k>>],
         go    |-> ~stopped]

\* forEachInner(f, from, to, start): Leaf's and Append's.
RECURSIVE forEachInner(_, _, _, _, _, _)
forEachInner(this, stop, from, to, start, calls) ==
    IF this.kind = "leaf" THEN leafForEach(this.values, stop, from, to, start, calls)
    ELSE LET leftLen == ropeLength(this.left)
             l == IF from < leftLen
                  THEN forEachInner(this.left, stop, from, Min(to, leftLen), start, calls)
                  ELSE [calls |-> calls, go |-> TRUE]
         IN  IF ~l.go THEN l
             ELSE IF to > leftLen
             THEN forEachInner(this.right, stop, Max(from - leftLen, 0),
                               Min(ropeLength(this), to) - leftLen, start + leftLen, l.calls)
             ELSE l

\* forEachInvertedInner(f, from, to, start): Leaf's and Append's.
RECURSIVE forEachInvertedInner(_, _, _, _, _, _)
forEachInvertedInner(this, stop, from, to, start, calls) ==
    IF this.kind = "leaf"
    THEN leafForEachInverted(this.values, stop, from, to, start, calls)
    ELSE LET leftLen == ropeLength(this.left)
             r == IF from > leftLen
                  THEN forEachInvertedInner(this.right, stop, from - leftLen,
                                            Max(to, leftLen) - leftLen, start + leftLen, calls)
                  ELSE [calls |-> calls, go |-> TRUE]
         IN  IF ~r.go THEN r
             ELSE IF to < leftLen
             THEN forEachInvertedInner(this.left, stop, Min(from, leftLen), to, start, r.calls)
             ELSE r

\* RopeSequence.forEach that walks upwards whatever the order of from and
\* to (mutant).
forEach_upwards(this, stop, from, to) ==
    forEachInner(this, stop, Min(from, to), Max(from, to), 0, <<>>).calls

\* RopeSequence.forEach(f, from, to): the calls it makes.
forEach(this, stop, from, to) ==
    IF from <= to THEN forEachInner(this, stop, from, to, 0, <<>>).calls
    ELSE forEachInvertedInner(this, stop, from, to, 0, <<>>).calls

(***************************************************************************)
(* Specification SpecRope: append, prepend, slice and forEach on ropes     *)
(* built by appending leaves of sizes around GOOD_LEAF_SIZE.               *)
(***************************************************************************)
MaxRopeLeaves == 3      \* leaves appended to build the rope `this`
MaxOtherLeaves == 2     \* leaves appended to build the operand of append

LeafSizes == {1, GOOD_LEAF_SIZE - 1, GOOD_LEAF_SIZE}

\* An array of n distinct positive elements.
Elements(n, base) == [i \in 1..n |-> base + i]

\* The rope built by appending arrays of the given sizes to the empty rope.
RECURSIVE BuildRope(_, _, _, _)
BuildRope(sizes, i, base, acc) ==
    IF i > Len(sizes) THEN acc
    ELSE BuildRope(sizes, i + 1, base,
                   ropeAppend(acc, RopeArray(Elements(sizes[i], base + 1000 * i))))

Ropes(n, base) == {BuildRope(sizes, 1, base, RopeEmpty) : sizes \in SeqsUpTo(LeafSizes, n)}

Operands ==
    Ropes(MaxOtherLeaves, 10000)
        \cup {RopeArray(Elements(n, 20000)) : n \in LeafSizes \cup {0}}

\* The offsets at which the leaves of a rope start and end.
RECURSIVE ropeBounds(_, _)
ropeBounds(r, start) ==
    IF r.kind = "append"
    THEN ropeBounds(r.left, start) \cup ropeBounds(r.right, start + ropeLength(r.left))
    ELSE {start, start + ropeLength(r)}

\* The indices tried: every leaf boundary and the indices next to it.
Offsets == {0 - 2, 0 - 1, 0, 1}

Points(r) == {p + d : p \in ropeBounds(r, 0), d \in Offsets}

InPoints(r) == Points(r) \cap (0..ropeLength(r))

NoStop == 0 - 1

RopeInput(op, a, b, from, to, stop) ==
    [op |-> op, a |-> a, b |-> b, from |-> from, to |-> to, stop |-> stop]

InitRope ==
    /\ NoTransform
    /\ \E a \in Ropes(MaxRopeLeaves, 0) :
          \/ \E b \in Operands : \E op \in {"append", "prepend"} :
                inp = RopeInput(op, a, b, 0, 0, NoStop)
          \/ \E from \in Points(a) : \E to \in Points(a) :
                inp = RopeInput("slice", a, RopeEmpty, from, to, NoStop)
          \/ \E from \in InPoints(a) : \E to \in InPoints(a) :
                inp = RopeInput("forEach", a, RopeEmpty, from, to, NoStop)
          \/ \E ends \in {<<0, ropeLength(a)>>, <<ropeLength(a), 0>>} :
             \E stop \in InPoints(a) \ {ropeLength(a)} :
                inp = RopeInput("forEach", a, RopeEmpty, ends[1], ends[2], stop)
    /\ out = Idle

RopeDone(op, r, calls) ==
    /\ out' = [op |-> op, r |-> r, calls |-> calls]
    /\ UNCHANGED inp
    /\ TransformUnchanged

DoRopeAppend ==
    /\ inp.op = "append"
    /\ out = Idle
    /\ \E r \in {ropeAppend(inp.a, inp.b)} : RopeDone("ropeAppend", r, <<>>)

DoRopePrepend ==
    /\ inp.op = "prepend"
    /\ out = Idle
    /\ \E r \in {ropePrepend(inp.a, inp.b)} : RopeDone("ropePrepend", r, <<>>)

DoRopeSlice ==
    /\ inp.op = "slice"
    /\ out = Idle
    /\ \E r \in {ropeSlice(inp.a, inp.from, inp.to)} : RopeDone("ropeSlice", r, <<>>)

DoRopeForEach ==
    /\ inp.op = "forEach"
    /\ out = Idle
    /\ \E calls \in {forEach(inp.a, inp.stop, inp.from, inp.to)} :
           RopeDone("ropeForEach", RopeEmpty, calls)

NextRope == DoRopeAppend \/ DoRopePrepend \/ DoRopeSlice \/ DoRopeForEach

SpecRope == InitRope /\ [][NextRope]_vars

\* What get(i) returns for every index of the rope, as an array.
gets(r) == [i \in 1..ropeLength(r) |-> ropeGet(r, i - 1)]

sliced == out.op = "ropeSlice"

\* The elements at the indices i with max(0, from) <= i < min(length, to).
expectedSlice ==
    LET all == flatten(inp.a)
        lo  == Max(0, inp.from)
        hi  == Min(Len(all), inp.to)
    IN  IF inp.from >= inp.to \/ lo >= hi THEN <<>> ELSE SubSeq(all, lo + 1, hi)

\* C23: slice(from, to) returns, for all integers from and to (negative and
\* beyond the length included), a rope holding exactly the elements at the
\* indices i with max(0, from) <= i < min(length, to), in order, and its
\* length is the number of those elements.
C23_SliceElements ==
    sliced =>
        /\ flatten(out.r) = expectedSlice
        /\ ropeLength(out.r) = Len(expectedSlice)

forEachDone == out.op = "ropeForEach"

\* The indices forEach(f, from, to) has to visit, in order: from .. to - 1
\* upwards, or from - 1 .. to downwards.
visitOrder ==
    IF inp.from <= inp.to
    THEN [k \in 1..(inp.to - inp.from) |-> inp.from + k - 1]
    ELSE [k \in 1..(inp.from - inp.to) |-> inp.from - k]

\* The visits up to and including the one where f returns false.
visitsMade(order) ==
    IF \E k \in 1..Len(order) : order[k] = inp.stop
    THEN SubSeq(order, 1, CHOOSE k \in 1..Len(order) : order[k] = inp.stop)
    ELSE order

\* C24: forEach(f, from, to) with from and to inside the rope calls f once
\* for each element between them with the element's index in the whole rope,
\* upwards from `from` to to - 1 when from <= to and downwards from from - 1
\* to `to` when from > to, and makes no call after the one where f returned
\* false.
C24_ForEachOrder ==
    forEachDone =>
        \A all \in {flatten(inp.a)} : \A order \in {visitOrder} :
        \A made \in {visitsMade(order)} :
            out.calls = [k \in 1..Len(made) |-> <<all[made[k] + 1], made[k]>>]

\* C24 is exercised: a downward walk over a rope of nested Appends crossed a
\* leaf boundary and ended early where f returned false.
C24_Witness ==
    /\ forEachDone
    /\ inp.from > inp.to
    /\ ropeDepth(inp.a) >= 2
    /\ inp.stop /= NoStop
    /\ Len(out.calls) > GOOD_LEAF_SIZE
    /\ Len(out.calls) < inp.from - inp.to

(***************************************************************************)
(* Node.replace: text merging (checked under SpecReplace).                 *)
(***************************************************************************)
\* The number of text nodes below f.
RECURSIVE textNodes(_)
RECURSIVE textNodesFrom(_, _)
textNodesFrom(f, i) ==
    IF i > Len(f.content) THEN 0
    ELSE (IF isText(f.content[i]) THEN 1 ELSE textNodes(f.content[i].content))
             + textNodesFrom(f, i + 1)

textNodes(f) == textNodesFrom(f, 1)

\* C25: when neither the document nor the slice has two adjacent text
\* siblings with the same marks, the document replace returns has none
\* either.
C25_ReplaceMergesText ==
    (returnedDoc /\ Normalized(inp.doc.content) /\ Normalized(inp.slice.content))
        => Normalized(out.doc.content)

\* C25 is exercised: an open slice was merged in below the top level and
\* text of the slice was joined with text of the document into one node.
C25_Witness ==
    /\ returnedDoc
    /\ Normalized(inp.doc.content)
    /\ Normalized(inp.slice.content)
    /\ inp.slice.openStart > 0
    /\ inp.slice.content.size > 0
    /\ inp.from = inp.to
    /\ textNodes(out.doc.content) < textNodes(inp.doc.content) + textNodes(inp.slice.content)

(***************************************************************************)
(* Specification SpecMerge: AddMarkStep.merge / RemoveMarkStep.merge on    *)
(* two mark steps over one of the start documents, and the documents the   *)
(* two steps and the merged step give.                                     *)
(***************************************************************************)
\* merge that does not compare the marks (mutant).
merge_anymark(this, other) ==
    IF other.kind = this.kind /\ this.from <= other.to /\ this.to >= other.from
    THEN [this EXCEPT !.from = Min(this.from, other.from), !.to = Max(this.to, other.to)]
    ELSE NullStep

\* merge(other): the merged step, or NullStep for undefined.
merge(this, other) ==
    IF other.kind = this.kind /\ other.mark = this.mark
       /\ this.from <= other.to /\ this.to >= other.from
    THEN [this EXCEPT !.from = Min(this.from, other.from), !.to = Max(this.to, other.to)]
    ELSE NullStep

\* The document the two steps are applied to.
MergeDocs == {Doc(<<Para(<<Ta, TbcStrong>>)>>)}

InitMerge ==
    /\ NoTransform
    /\ \E d \in MergeDocs : \E st \in MarkSteps(d) : \E other \in MarkSteps(d) :
           inp = [op |-> "merge", doc |-> d, step |-> st, other |-> other]
    /\ out = Idle

\* The mark steps applied one after the other, each to the result of the one
\* before; the first result that is not a document ends it.
RECURSIVE applySteps(_, _)
applySteps(sts, d) ==
    IF sts = <<>> THEN StepResultOk(d)
    ELSE LET first == markStepApply(Head(sts), d)
         IN  IF first.kind = "ok" THEN applySteps(Tail(sts), first.doc) ELSE first

\* both: this.apply(doc), then other.apply on the result; one: the merged
\* step alone (no step at all when merge returned undefined).
DoMerge ==
    /\ inp.op = "merge"
    /\ out = Idle
    /\ \E m \in {merge(inp.step, inp.other)} :
       \E r \in {[runs \in {"both", "one"} |->
                    applySteps(IF runs = "both" THEN <<inp.step, inp.other>>
                               ELSE IF m = NullStep THEN <<>> ELSE <<m>>,
                               inp.doc)]} :
           out' = [op |-> "merge", merged |-> m, both |-> r["both"], one |-> r["one"]]
    /\ UNCHANGED inp
    /\ TransformUnchanged

NextMerge == DoMerge

SpecMerge == InitMerge /\ [][NextMerge]_vars

mergeable ==
    /\ inp.step.kind = inp.other.kind
    /\ inp.step.mark = inp.other.mark
    /\ inp.step.from <= inp.other.to
    /\ inp.step.to >= inp.other.from

\* C26: for two mark steps of the same kind with equal marks whose ranges
\* overlap or touch, merge returns one step of that kind and mark over
\* [min(from), max(to)], and applying it gives the same document as applying
\* the two steps one after the other; for another kind, another mark or
\* disjoint ranges it returns nothing.
C26_MergeIsUnion ==
    out.op = "merge" =>
        IF mergeable
        THEN /\ out.merged.kind = inp.step.kind
             /\ out.merged.mark = inp.step.mark
             /\ out.merged.from = Min(inp.step.from, inp.other.from)
             /\ out.merged.to = Max(inp.step.to, inp.other.to)
             /\ out.both.kind = "ok"
             /\ out.one.kind = "ok"
             /\ nodeEq(out.one.doc, out.both.doc)
        ELSE out.merged = NullStep

\* C26 is exercised: two steps with partly overlapping ranges were merged,
\* each of them changes the document, and so does each alone differ from the
\* merged result.
C26_Witness ==
    /\ out.op = "merge"
    /\ mergeable
    /\ inp.step.from < inp.other.from
    /\ inp.other.from < inp.step.to
    /\ inp.step.to < inp.other.to
    /\ out.one.kind = "ok"
    /\ ~nodeEq(out.one.doc, inp.doc)
    /\ ~nodeEq(out.one.doc, apply(inp.step, inp.doc).doc)
    /\ ~nodeEq(out.one.doc, apply(inp.other, inp.doc).doc)

(***************************************************************************)
(* DropCursorView (src/rope-sequence/index.ts).  The view object is the    *)
(* record in `out`; the browser side (pending timers, whether the event    *)
(* listeners are attached, which handler armed the timer) is the record in *)
(* `inp`.  EditorView and the DOM are not part of the sources: what they   *)
(* answer (editable, the position under the pointer, whether the editor    *)
(* has an offset parent, whether the cursor position still resolves) is    *)
(* chosen freely at every call.                                            *)
(***************************************************************************)
DragoverRemovalMs == 5000
DropRemovalMs == 20

\* The length of one step of the clock.
TickMs == 20

\* cursorPos = null
NoPos == 0 - 1

\* The positions a dragover can point at.
CursorPositions == {0, 1}

\* The constructor: no cursor, no element, no timer.
NewDropCursorView ==
    [op |-> "dropCursor", cursorPos |-> NoPos, element |-> FALSE, timeout |-> 0,
     threw |-> ""]

NewBrowser == [op |-> "dropCursor", timers |-> {}, listening |-> TRUE, armedBy |-> ""]

\* updateOverlay(): resolve throws a RangeError for a position outside the
\* document; a missing element is created under dom.offsetParent, which
\* throws a TypeError when there is no offset parent.
updateOverlay(view, resolves, hasParent) ==
    IF ~resolves THEN [view EXCEPT !.threw = "RangeError"]
    ELSE IF ~view.element
    THEN IF hasParent THEN [view EXCEPT !.element = TRUE]
         ELSE [view EXCEPT !.threw = "TypeError"]
    ELSE view

\* setCursor(pos): removing the element reads this.element.parentNode, a
\* TypeError when there is no element.
setCursor(view, pos, hasParent) ==
    IF pos = view.cursorPos THEN view
    ELSE IF pos = NoPos
    THEN IF view.element THEN [view EXCEPT !.cursorPos = NoPos, !.element = FALSE]
         ELSE [view EXCEPT !.cursorPos = NoPos, !.threw = "TypeError"]
    ELSE updateOverlay([view EXCEPT !.cursorPos = pos], TRUE, hasParent)

\* setTimeout's return value: an id no pending timer has.
newTimerId(timers) == CHOOSE id \in 1..(Cardinality(timers) + 1) : \A t \in timers : t.id /= id

\* scheduleRemoval(timeout): the view and the pending timers after it.
scheduleRemoval(view, timers, timeout) ==
    LET kept == {t \in timers : t.id /= view.timeout}
        id   == newTimerId(kept)
    IN  [view   |-> [view EXCEPT !.timeout = id],
         timers |-> kept \cup {[id |-> id, remaining |-> timeout]}]

calm(view) == [view EXCEPT !.threw = ""]

\* dragover(event)
Dragover ==
    /\ inp.listening
    /\ \E editable \in BOOLEAN : \E hit \in CursorPositions \cup {NoPos} :
       \E hasParent \in BOOLEAN :
          IF ~editable \/ hit = NoPos
          THEN out' = calm(out) /\ UNCHANGED inp
          ELSE \E shown \in {setCursor(calm(out), hit, hasParent)} :
                  IF shown.threw /= ""
                  THEN out' = shown /\ UNCHANGED inp
                  ELSE \E s \in {scheduleRemoval(shown, inp.timers, DragoverRemovalMs)} :
                          /\ out' = s.view
                          /\ inp' = [inp EXCEPT !.timers = s.timers, !.armedBy = "dragover"]
    /\ TransformUnchanged

\* dragend()
Dragend ==
    /\ inp.listening
    /\ \E s \in {scheduleRemoval(calm(out), inp.timers, DropRemovalMs)} :
          /\ out' = s.view
          /\ inp' = [inp EXCEPT !.timers = s.timers, !.armedBy = "dragend"]
    /\ TransformUnchanged

\* drop()
Drop ==
    /\ inp.listening
    /\ \E s \in {scheduleRemoval(calm(out), inp.timers, DropRemovalMs)} :
          /\ out' = s.view
          /\ inp' = [inp EXCEPT !.timers = s.timers, !.armedBy = "drop"]
    /\ TransformUnchanged

\* dragleave(event): the pointer left the editor, or moved inside it.
Dragleave ==
    /\ inp.listening
    /\ \E left \in BOOLEAN :
          out' = IF left THEN setCursor(calm(out), NoPos, TRUE) ELSE calm(out)
    /\ UNCHANGED inp
    /\ TransformUnchanged

\* A pending timer whose time is up runs () => this.setCursor(null).
TimerFires ==
    /\ \E t \in inp.timers :
          /\ t.remaining = 0
          /\ inp' = [inp EXCEPT !.timers = inp.timers \ {t}]
    /\ out' = setCursor(calm(out), NoPos, TRUE)
    /\ TransformUnchanged

\* Time passes, up to the moment the next timer is due.
Tick ==
    /\ inp.timers /= {}
    /\ \A t \in inp.timers : t.remaining > 0
    /\ \E d \in {Min(TickMs, CHOOSE m \in {t.remaining : t \in inp.timers} :
                                \A t \in inp.timers : m <= t.remaining)} :
          inp' = [inp EXCEPT !.timers = {[t EXCEPT !.remaining = t.remaining - d] :
                                            t \in inp.timers}]
    /\ UNCHANGED out
    /\ TransformUnchanged

\* update(editorView, prevState)
Update ==
    /\ inp.listening
    /\ \E changed \in BOOLEAN : \E resolves \in BOOLEAN : \E hasParent \in BOOLEAN :
          out' = IF out.cursorPos /= NoPos /\ changed
                 THEN updateOverlay(calm(out), resolves, hasParent)
                 ELSE calm(out)
    /\ UNCHANGED inp
    /\ TransformUnchanged

\* destroy(): the four listeners are removed; a pending timer stays.
Destroy ==
    /\ inp.listening
    /\ inp' = [inp EXCEPT !.listening = FALSE]
    /\ UNCHANGED out
    /\ TransformUnchanged

InitDrop ==
    /\ NoTransform
    /\ inp = NewBrowser
    /\ out = NewDropCursorView

NextDrop ==
    \/ Dragover
    \/ Dragend
    \/ Drop
    \/ Dragleave
    \/ TimerFires
    \/ Tick
    \/ Update
    \/ Destroy

SpecDrop == InitDrop /\ [][NextDrop]_vars

\* Time passes and a due timer runs its callback.
SpecDropLive == InitDrop /\ [][NextDrop]_vars /\ WF_vars(Tick) /\ WF_vars(TimerFires)

\* A handler that calls scheduleRemoval ran.
RemovalScheduled == Dragover \/ Dragend \/ Drop

\* setCursor(null) found no element to remove.
removedMissing == out.op = "dropCursor" /\ out.threw = "TypeError" /\ out.cursorPos = NoPos

\* C27: under any interleaving of dragover, dragend, drop and dragleave events
\* the drop cursor is eventually cleared once the events that schedule a
\* removal stop: either such events keep arriving, or from some moment on no
\* overlay element is displayed.
C27_EventuallyCleared == ([]<><<RemovalScheduled>>_vars) \/ <>[](~out.element)

\* C28: the overlay element exists exactly when cursorPos is non-null, and
\* setCursor(null) never removes a missing element.
C28_ElementIffCursor ==
    out.op = "dropCursor" => /\ out.element <=> out.cursorPos /= NoPos
                             /\ ~removedMissing

(***************************************************************************)
(* Column resizing (src/unnamed/part_000).  The editor side is the record  *)
(* in `out`: the document (one table of one row, or no table), the colwidth*)
(* attribute of every cell (0 for none), the plugin state (activeHandle,   *)
(* dragging) and what the last handler found and did.  The window's mouseup and      *)
(* mousemove listeners are in `inp`.  Values of the plugin state are JS    *)
(* values: activeHandle is a number or null, dragging is false, null or    *)
(* the object {startX, startWidth}.                                        *)
(***************************************************************************)
cellMinWidth == 25

\* Cells in the row at most.
MaxCells == 2

\* The widest column a drag is followed to.
MaxWidth == 50

\* event.clientX
ClientXs == {0, 20}

\* offsetWidth of a cell without a colwidth
DomWidths == {10, 30}

TableCell == Elem("table_cell", <<Para(<<>>)>>)

\* A document that holds a table of one row of n cells; a paragraph for n = 0.
TableDoc(n) ==
    IF n = 0 THEN Doc(<<Para(<<>>)>>)
    ELSE Doc(<<Elem("table", <<Elem("table_row", [i \in 1..n |-> TableCell])>>)>>)

\* The position in front of cell k of the row.
cellPos(k) == 2 + (k - 1) * nodeSize(TableCell)

\* pointsAtCell($pos)
pointsAtCell(p) == posParent(p).type = "table_row" /\ ~isNull(nodeAfter(p))

\* Number(j) for a number or null
jsNumber(j) == IF isNum(j) THEN j.num ELSE 0

\* a > b
jsGreater(a, b) == jsNumber(a) > jsNumber(b)

\* a == b: null equals no number.
jsLooseEq(a, b) == IF isNum(a) /\ isNum(b) THEN a.num = b.num ELSE a = b

ResizeState(activeHandle, dragging) == [activeHandle |-> activeHandle, dragging |-> dragging]

\* The meta of a transaction that carries none: action is undefined.
NoAction == [setHandle |-> JUndefined, setDragging |-> JUndefined]

\* A transaction: the plugin's meta, the step maps of its steps, trn.doc.
Tr(action, mapping, d) == [action |-> action, mapping |-> mapping, doc |-> d]

\* ResizeState.apply(tr)
applyResize(state, trn) ==
    IF ~jsLooseEq(trn.action.setHandle, JNull) /\ trn.action.setHandle /= JUndefined
    THEN ResizeState(trn.action.setHandle, JNull)
    ELSE IF trn.action.setDragging /= JUndefined
    THEN ResizeState(state.activeHandle, trn.action.setDragging)
    ELSE IF jsGreater(state.activeHandle, JNum(0 - 1)) /\ trn.mapping /= <<>>
    THEN LET handle == mappingMap(trn.mapping, jsNumber(state.activeHandle), 0 - 1)
         IN  ResizeState(IF pointsAtCell(resolve(trn.doc, handle)) THEN JNum(handle)
                         ELSE JNull,
                         state.dragging)
    ELSE state

\* view.dispatch(tr): the new document and the new plugin state.
dispatch(view, trn) ==
    [view EXCEPT !.doc = trn.doc, !.plugin = applyResize(view.plugin, trn)]

\* updateHandle(view, value)
updateHandle(view, value) ==
    dispatch(view, Tr([NoAction EXCEPT !.setHandle = JNum(value)], <<>>, view.doc))

\* props.attributes(state)
attributes(view) ==
    IF jsGreater(view.plugin.activeHandle, JNum(0 - 1)) THEN "resize-cursor" ELSE ""

\* props.decorations(state) calls handleDecorations(state, activeHandle).
decorated(view) == jsGreater(view.plugin.activeHandle, JNum(0 - 1))

\* The positions of the document that point at a cell.
cellPositions(d) == {pos \in 0..d.content.size : pointsAtCell(resolve(d, pos))}

\* The index in the row of the cell at a position.
cellIndex(d, pos) == posIndex(resolve(d, pos), 2) + 1

\* draggedWidth(dragging, event, cellMinWidth)
draggedWidth(dragging, clientX) ==
    Max(cellMinWidth, dragging.obj.startWidth.num + (clientX - dragging.obj.startX.num))

\* currentColWidth(view, cellPos, attrs), for a cell of colspan 1
currentColWidth(colwidth, domWidth) == IF colwidth /= 0 THEN colwidth ELSE domWidth

\* The step map of setNodeMarkup on the node at pos.
markupMap(d, pos) ==
    LET size == nodeSize(nodeAfter(resolve(d, pos)))
    IN  <<pos, 1, 1, pos + size - 1, 1, 1>>

\* updateColumnWidth(view, cell, width): resolving a handle that is null or
\* that points at no cell leaves no table to look up and throws.
updateColumnWidth(view, cell, width) ==
    IF ~isNum(cell) \/ cell.num \notin cellPositions(view.doc)
    THEN [view EXCEPT !.threw = IF isNum(cell) THEN "RangeError" ELSE "TypeError"]
    ELSE LET k == cellIndex(view.doc, cell.num)
         IN  IF view.colwidth[k] = width THEN view
             ELSE dispatch([view EXCEPT !.colwidth[k] = width],
                           Tr(NoAction, <<markupMap(view.doc, cell.num)>>, view.doc))

NewResizeView(n) ==
    [op |-> "resize", doc |-> TableDoc(n), colwidth |-> [i \in 1..n |-> 0],
     plugin |-> ResizeState(JNum(0 - 1), JBool(FALSE)),
     last |-> "", before |-> ResizeState(JNum(0 - 1), JBool(FALSE)), threw |-> "",
     committed |-> 0]

\* A handler starts: its name and the plugin state it finds are noted.
ran(view, name) ==
    [view EXCEPT !.last = name, !.before = view.plugin, !.threw = "", !.committed = 0]

\* handleMouseMove(view, event, ...): the hover handler of the editor.
HandleMouseMove ==
    /\ \E cell \in {0 - 1} \cup cellPositions(out.doc) :
          out' = IF falsy(out.plugin.dragging)
                    /\ ~jsLooseEq(JNum(cell), out.plugin.activeHandle)
                 THEN updateHandle(ran(out, "mousemove"), cell)
                 ELSE ran(out, "mousemove")
    /\ UNCHANGED inp
    /\ TransformUnchanged

\* handleMouseLeave(view)
HandleMouseLeave ==
    /\ out' = IF jsGreater(out.plugin.activeHandle, JNum(0 - 1)) /\ falsy(out.plugin.dragging)
              THEN updateHandle(ran(out, "mouseleave"), 0 - 1)
              ELSE ran(out, "mouseleave")
    /\ UNCHANGED inp
    /\ TransformUnchanged

\* handleMouseDown(view, event, cellMinWidth): doc.nodeAt(null) throws.
HandleMouseDown ==
    /\ \E clientX \in ClientXs : \E domWidth \in DomWidths :
          IF jsLooseEq(out.plugin.activeHandle, JNum(0 - 1)) \/ ~falsy(out.plugin.dragging)
          THEN out' = ran(out, "mousedown") /\ UNCHANGED inp
          ELSE IF ~isNum(out.plugin.activeHandle)
          THEN out' = [ran(out, "mousedown") EXCEPT !.threw = "RangeError"] /\ UNCHANGED inp
          ELSE \E width \in {currentColWidth(
                                out.colwidth[cellIndex(out.doc, out.plugin.activeHandle.num)],
                                domWidth)} :
                  /\ out' = dispatch(ran(out, "drag"),
                                Tr([NoAction EXCEPT !.setDragging =
                                        JObj([startX |-> JNum(clientX),
                                              startWidth |-> JNum(width)])],
                                   <<>>, out.doc))
                  /\ inp' = [inp EXCEPT !.mouseup = @ + 1, !.mousemove = @ + 1]
    /\ TransformUnchanged

\* finish(event): both listeners go first; the width is committed and
\* dragging is reset unless updateColumnWidth throws.
finish(view, clientX) ==
    IF falsy(view.plugin.dragging) THEN ran(view, "finish")
    ELSE LET width   == draggedWidth(view.plugin.dragging, clientX)
             updated == updateColumnWidth(ran(view, "finish"), view.plugin.activeHandle, width)
         IN  IF updated.threw /= "" THEN updated
             ELSE dispatch([updated EXCEPT !.committed = width],
                           Tr([NoAction EXCEPT !.setDragging = JNull], <<>>, updated.doc))

\* The pointer positions a drag can end at.
EndXs(view) ==
    {clientX \in ClientXs :
        falsy(view.plugin.dragging) \/ draggedWidth(view.plugin.dragging, clientX) <= MaxWidth}

\* The window's mouseup listener.
Mouseup ==
    /\ inp.mouseup > 0
    /\ \E clientX \in EndXs(out) : out' = finish(out, clientX)
    /\ inp' = [inp EXCEPT !.mouseup = @ - 1, !.mousemove = @ - 1]
    /\ TransformUnchanged

\* move(event), the window's mousemove listener: finish when no button is
\* pressed, else displayColumnWidth, which changes the DOM only.
WindowMousemove ==
    /\ inp.mousemove > 0
    /\ \E clientX \in EndXs(out) : \E which \in BOOLEAN :
          IF ~which
          THEN /\ out' = finish(out, clientX)
               /\ inp' = [inp EXCEPT !.mouseup = @ - 1, !.mousemove = @ - 1]
          ELSE /\ out' = IF out.plugin.activeHandle \in {JNum(pos) : pos \in cellPositions(out.doc)}
                         THEN ran(out, "move")
                         ELSE [ran(out, "move") EXCEPT !.threw = "TypeError"]
               /\ UNCHANGED inp
    /\ TransformUnchanged

\* A transaction from elsewhere that changes the document: a cell is
\* deleted or inserted, the table is deleted or created.
DocChange ==
    /\ LET n == Len(out.colwidth)
           without(k) == [i \in 1..(n - 1) |-> out.colwidth[IF i < k THEN i ELSE i + 1]]
           with(k) == [i \in 1..(n + 1) |-> IF i < k THEN out.colwidth[i]
                                            ELSE IF i = k THEN 0 ELSE out.colwidth[i - 1]]
           changed(view, ranges, m) ==
               dispatch(ran(view, "change"), Tr(NoAction, <<ranges>>, TableDoc(m)))
       IN  \/ \E k \in 1..n :
                 /\ n > 1
                 /\ out' = changed([out EXCEPT !.colwidth = without(k)],
                                   <<cellPos(k), nodeSize(TableCell), 0>>, n - 1)
           \/ \E k \in 1..(n + 1) :
                 /\ n > 0 /\ n < MaxCells
                 /\ out' = changed([out EXCEPT !.colwidth = with(k)],
                                   <<cellPos(k), 0, nodeSize(TableCell)>>, n + 1)
           \/ /\ n > 0
              /\ out' = changed([out EXCEPT !.colwidth = <<>>],
                                <<0, out.doc.content.size, TableDoc(0).content.size>>, 0)
           \/ /\ n = 0
              /\ out' = changed([out EXCEPT !.colwidth = <<0>>],
                                <<0, out.doc.content.size, TableDoc(1).content.size>>, 1)
    /\ UNCHANGED inp
    /\ TransformUnchanged

InitResize ==
    /\ NoTransform
    /\ inp = [op |-> "resize", mouseup |-> 0, mousemove |-> 0]
    /\ \E n \in 0..MaxCells : out = NewResizeView(n)

NextResize ==
    \/ HandleMouseMove
    \/ HandleMouseLeave
    \/ HandleMouseDown
    \/ Mouseup
    \/ WindowMousemove
    \/ DocChange

SpecResize == InitResize /\ [][NextResize]_vars

\* activeHandle is a position that points at a cell of the current document.
atCell(view) ==
    isNum(view.plugin.activeHandle) /\ view.plugin.activeHandle.num \in cellPositions(view.doc)

\* C29: activeHandle is either -1 or a position that points at a table cell
\* of the current document, and the 'resize-cursor' class and the handle
\* decorations are produced only for a handle that points at a cell.
C29_HandlePointsAtCell ==
    out.op = "resize" =>
        /\ out.plugin.activeHandle = JNum(0 - 1) \/ atCell(out)
        /\ attributes(out) = "resize-cursor" => atCell(out)
        /\ decorated(out) => atCell(out)

dragStarted == out.op = "resize" /\ out.last = "drag"
dragFinished == out.op = "resize" /\ out.last = "finish"
hovered == out.op = "resize" /\ out.last \in {"mousemove", "mouseleave"}

\* C30: a mousedown starts a drag only with an active handle and no drag in
\* progress, and then both window listeners are attached; when finish has
\* run both listeners are gone, a width of at least cellMinWidth is
\* committed and dragging is null; a hover mousemove or a mouseleave during
\* a drag leaves the plugin state alone.
C30_DragProtocol ==
    /\ dragStarted => /\ out.before.activeHandle /= JNum(0 - 1)
                      /\ falsy(out.before.dragging)
                      /\ inp.mouseup = 1 /\ inp.mousemove = 1
    /\ dragFinished => /\ inp.mouseup = 0 /\ inp.mousemove = 0
                       /\ out.committed >= cellMinWidth
                       /\ out.plugin.dragging = JNull
    /\ hovered /\ ~falsy(out.before.dragging) => out.plugin = out.before

====
